---- MODULE Spec2Model ----
(***************************************************************************)
(* Dialogue management core of aea/helpers/dialogue/base.py: the           *)
(* DialogueLabel value type, the Dialogue state machine (update, reply,    *)
(* validation pipeline) and the Dialogues registry (create, update, label  *)
(* completion, lookup), instantiated with the reply grammar of the         *)
(* t_protocol_no_ct protocol.                                              *)
(***************************************************************************)
EXTENDS Integers, Sequences, FiniteSets, TLC

VARIABLES
    dialogues,               \* Dialogues._dialogues_by_dialogue_label
    incomplete_to_complete,  \* Dialogues._incomplete_to_complete_dialogue_labels
    nonce_count,             \* how many nonces the registry has drawn
    ret,                     \* the call in progress: arguments, state before it, outcome
    accepted,                \* per dialogue object, its messages in the order accepted
    dialogue_stats,          \* Dialogues._dialogue_stats: the two histograms
    recorded                 \* how many calls of add_dialogue_endstate have succeeded

vars == <<dialogues, incomplete_to_complete, nonce_count, ret, accepted,
          dialogue_stats, recorded>>

(***************************************************************************)
(* Bounds of the model.                                                    *)
(***************************************************************************)
\* number of nonces the registry may draw (one per created dialogue)
MaxNonces == 2
\* greatest message id (and so the greatest number of messages of a dialogue)
MaxMsgs == 3
\* size of the registry: nonces drawn plus messages held by its dialogues
MaxSize == 4
\* number of end states recorded in the statistics
MaxEndStates == 3
\* length of the components of the labels converted to JSON and to strings
MaxChars == 2
\* nonces drawn plus messages stored where dialogues run to their closing
\* message and one message more is offered
MaxClosing == 5

(***************************************************************************)
(* Program constants.                                                      *)
(***************************************************************************)
STARTING_MESSAGE_ID == 1
STARTING_TARGET == 0
UNASSIGNED_DIALOGUE_REFERENCE == ""

\* the address the registry is constructed with, and the peers it talks to
AgentAddress == "alice"
Peers == {"bob", "carol"}
Addresses == {AgentAddress} \cup Peers
\* a message field that was never assigned (has_sender / has_to is false)
Unset == "<unset>"
\* the absent value (Python None)
None == [none |-> TRUE]

(***************************************************************************)
(* Protocol descriptor: TProtocolNoCtDialogue.                             *)
(***************************************************************************)
Performatives ==
    {"performative_empty_contents", "performative_mt", "performative_o",
     "performative_pct", "performative_pmt", "performative_pt"}

INITIAL_PERFORMATIVES == {"performative_pt"}

TERMINAL_PERFORMATIVES ==
    {"performative_mt", "performative_o", "performative_empty_contents"}

VALID_REPLIES ==
    [p \in Performatives |->
        CASE p = "performative_empty_contents" -> {"performative_empty_contents"}
          [] p = "performative_mt" -> {}
          [] p = "performative_o" -> {}
          [] p = "performative_pct" -> {"performative_mt", "performative_o"}
          [] p = "performative_pmt" -> {"performative_mt", "performative_o"}
          [] p = "performative_pt" ->
                {"performative_pt", "performative_pct", "performative_pmt"}]

\* TProtocolNoCtDialogues.END_STATES
END_STATES == {"END_STATE_1", "END_STATE_2", "END_STATE_3"}

\* role_from_first_message is a callable injected at construction; the core
\* stores its result and never interprets it
role_from_first_message(message) ==
    IF message.sender = AgentAddress THEN "role_1" ELSE "role_2"

(***************************************************************************)
(* DialogueLabel.                                                          *)
(***************************************************************************)
DialogueLabel(dialogue_reference, dialogue_opponent_addr, dialogue_starter_addr) ==
    [dialogue_reference |-> dialogue_reference,
     dialogue_opponent_addr |-> dialogue_opponent_addr,
     dialogue_starter_addr |-> dialogue_starter_addr]

get_incomplete_version(label) ==
    DialogueLabel(<<label.dialogue_reference[1], UNASSIGNED_DIALOGUE_REFERENCE>>,
                  label.dialogue_opponent_addr, label.dialogue_starter_addr)

(***************************************************************************)
(* Message (consumed from aea.protocols.base).                             *)
(***************************************************************************)
Message(dialogue_reference, message_id, target, performative, sender, to) ==
    [dialogue_reference |-> dialogue_reference, message_id |-> message_id,
     target |-> target, performative |-> performative,
     sender |-> sender, to |-> to]

(***************************************************************************)
(* Dialogue.                                                               *)
(***************************************************************************)
\* Dialogue.__init__: `self_initiated` is the outcome of the identity test
\* `dialogue_opponent_addr is not dialogue_starter_addr`; `oid` is the identity
\* of the object
NewDialogue(dialogue_label, role, self_initiated, oid) ==
    [dialogue_label |-> dialogue_label,
     incomplete_dialogue_label |-> get_incomplete_version(dialogue_label),
     role |-> role,
     is_self_initiated |-> self_initiated,
     outgoing_messages |-> <<>>,
     incoming_messages |-> <<>>,
     oid |-> oid]

dialogue_labels(d) == {d.dialogue_label, d.incomplete_dialogue_label}

Last(s) == s[Len(s)]

last_incoming_message(d) ==
    IF Len(d.incoming_messages) > 0 THEN Last(d.incoming_messages) ELSE None

last_outgoing_message(d) ==
    IF Len(d.outgoing_messages) > 0 THEN Last(d.outgoing_messages) ELSE None

\* variant of last_message: the last incoming message whenever there is one
last_message_incoming(d) ==
    IF last_incoming_message(d) # None THEN last_incoming_message(d)
    ELSE IF last_outgoing_message(d) # None THEN last_outgoing_message(d)
    ELSE None

last_message(d) ==
    IF last_incoming_message(d) # None /\ last_outgoing_message(d) # None
    THEN IF last_outgoing_message(d).message_id > last_incoming_message(d).message_id
         THEN last_outgoing_message(d)
         ELSE last_incoming_message(d)
    ELSE IF last_incoming_message(d) # None THEN last_incoming_message(d)
    ELSE IF last_outgoing_message(d) # None THEN last_outgoing_message(d)
    ELSE None

is_empty(d) == Len(d.outgoing_messages) = 0 /\ Len(d.incoming_messages) = 0

\* the outcomes of a call: a value, or the exception it raised
Raise(kind) == [raised |-> kind]
Raised(r) == "raised" \in DOMAIN r

\* Dialogue.get_message: the first message of outgoing + incoming with that
\* id; falling off the loop returns None
get_message(d, message_id) ==
    LET all == d.outgoing_messages \o d.incoming_messages
        hits == {i \in 1..Len(all) : all[i].message_id = message_id}
    IN  IF ~(1 <= message_id) THEN Raise("AssertionError")
        ELSE IF ~(message_id <= Len(all)) THEN Raise("AssertionError")
        ELSE IF hits = {} THEN None
        ELSE all[CHOOSE i \in hits : \A j \in hits : i <= j]

\* variant of get_valid_replies: every performative answers every other
get_valid_replies_any(performative) == Performatives

\* Dialogue.get_valid_replies asserts `performative in self.valid_replies`;
\* _basic_validation tests that precondition before it uses the result
get_valid_replies(performative) == VALID_REPLIES[performative]

is_message_by_self(message) == message.sender = AgentAddress

is_message_by_other(message) == ~is_message_by_self(message)

\* variant of is_belonging_to_dialogue: every message belongs
is_belonging_to_dialogue_any(d, message) == TRUE

is_belonging_to_dialogue(d, message) ==
    LET opponent == IF is_message_by_self(message) THEN message.to ELSE message.sender
    IN  IF d.is_self_initiated
        THEN DialogueLabel(<<message.dialogue_reference[1], UNASSIGNED_DIALOGUE_REFERENCE>>,
                           opponent, AgentAddress) \in dialogue_labels(d)
        ELSE DialogueLabel(message.dialogue_reference, opponent, opponent)
                 \in dialogue_labels(d)

\* variant of _basic_validation: the message_id is not compared with the
\* last message's
_basic_validation_any_id(d, message) ==
    LET dialogue_reference == message.dialogue_reference
        message_id == message.message_id
        target == message.target
        performative == message.performative
    IN  IF last_message(d) = None
        THEN IF ~(dialogue_reference[1] = d.dialogue_label.dialogue_reference[1])
                  THEN "invalid"
             ELSE IF ~(message_id = STARTING_MESSAGE_ID) THEN "invalid"
             ELSE IF ~(target = STARTING_TARGET) THEN "invalid"
             ELSE IF performative \notin INITIAL_PERFORMATIVES THEN "invalid"
             ELSE "ok"
        ELSE LET last_message_id == last_message(d).message_id
                 target_message == get_message(d, target)
             IN  IF dialogue_reference[1] # d.dialogue_label.dialogue_reference[1]
                      THEN "invalid"
                 ELSE IF target < 1 THEN "invalid"
                 ELSE IF last_message_id < target THEN "invalid"
                 ELSE IF Raised(target_message) THEN "AssertionError"
                 ELSE IF target_message = None THEN "AttributeError"
                 ELSE IF target_message.performative \notin DOMAIN VALID_REPLIES
                      THEN "AssertionError"
                 ELSE IF performative \notin get_valid_replies(target_message.performative)
                      THEN "invalid"
                 ELSE "ok"

\* validation results: "ok", "invalid" (a (False, reason) pair) or the name of
\* the exception that escapes
_basic_validation(d, message) ==
    LET dialogue_reference == message.dialogue_reference
        message_id == message.message_id
        target == message.target
        performative == message.performative
    IN  IF last_message(d) = None
        THEN IF ~(dialogue_reference[1] = d.dialogue_label.dialogue_reference[1])
                  THEN "invalid"
             ELSE IF ~(message_id = STARTING_MESSAGE_ID) THEN "invalid"
             ELSE IF ~(target = STARTING_TARGET) THEN "invalid"
             ELSE IF performative \notin INITIAL_PERFORMATIVES THEN "invalid"
             ELSE "ok"
        ELSE LET last_message_id == last_message(d).message_id
                 target_message == get_message(d, target)
             IN  IF dialogue_reference[1] # d.dialogue_label.dialogue_reference[1]
                      THEN "invalid"
                 ELSE IF message_id # last_message_id + 1 THEN "invalid"
                 ELSE IF target < 1 THEN "invalid"
                 ELSE IF last_message_id < target THEN "invalid"
                 ELSE IF Raised(target_message) THEN "AssertionError"
                 ELSE IF target_message = None THEN "AttributeError"
                 ELSE IF target_message.performative \notin DOMAIN VALID_REPLIES
                      THEN "AssertionError"
                 ELSE IF performative \notin get_valid_replies(target_message.performative)
                      THEN "invalid"
                 ELSE "ok"

\* variant of _additional_validation: the target may not exceed the last
\* target plus one
_additional_validation_upper(d, message) ==
    IF last_message(d) # None
    THEN IF message.target > last_message(d).target + 1 THEN "invalid" ELSE "ok"
    ELSE "ok"

\* variant of _additional_validation: the target is not compared with the
\* last message's
_additional_validation_off(d, message) == "ok"

_additional_validation(d, message) ==
    IF last_message(d) # None
    THEN IF message.target # last_message(d).target + 1 THEN "invalid" ELSE "ok"
    ELSE "ok"

\* variant of is_valid_next_message: basic validation and the hook only
is_valid_next_message_basic(d, message, hook) ==
    LET result_basic_validation == _basic_validation(d, message)
    IN  IF result_basic_validation # "ok" THEN result_basic_validation
        ELSE IF ~hook THEN "invalid"
        ELSE "ok"

\* is_valid is the hook of the concrete protocol; `hook` is its verdict
is_valid_next_message(d, message, hook) ==
    LET result_basic_validation == _basic_validation(d, message)
    IN  IF result_basic_validation # "ok" THEN result_basic_validation
        ELSE IF _additional_validation(d, message) # "ok" THEN "invalid"
        ELSE IF ~hook THEN "invalid"
        ELSE "ok"

\* variant of Dialogue.update: an unset sender is left unset
Dialogue_update_undefaulted(d, message, hook) ==
    LET v == is_valid_next_message(d, message, hook)
    IN  IF ~is_belonging_to_dialogue(d, message) THEN Raise("InvalidDialogueMessage")
        ELSE IF v = "invalid" THEN Raise("InvalidDialogueMessage")
        ELSE IF v # "ok" THEN Raise(v)
        ELSE IF is_message_by_self(message)
             THEN [d EXCEPT !.outgoing_messages = Append(@, message)]
             ELSE [d EXCEPT !.incoming_messages = Append(@, message)]

\* Dialogue.update: the dialogue after the call, or the exception raised
Dialogue_update(d, message, hook) ==
    LET m == IF message.sender = Unset
             THEN [message EXCEPT !.sender = AgentAddress] ELSE message
        v == is_valid_next_message(d, m, hook)
    IN  IF ~is_belonging_to_dialogue(d, m) THEN Raise("InvalidDialogueMessage")
        ELSE IF v = "invalid" THEN Raise("InvalidDialogueMessage")
        ELSE IF v # "ok" THEN Raise(v)
        ELSE IF is_message_by_self(m)
             THEN [d EXCEPT !.outgoing_messages = Append(@, m)]
             ELSE [d EXCEPT !.incoming_messages = Append(@, m)]

\* variant of reply_message: the reference of the incomplete label
reply_message_incomplete(d, target_message_id, performative) ==
    Message(d.incomplete_dialogue_label.dialogue_reference,
            last_message(d).message_id + 1,
            target_message_id,
            performative,
            AgentAddress,
            d.dialogue_label.dialogue_opponent_addr)

\* Dialogue.reply: the message built by the call
reply_message(d, target_message_id, performative) ==
    Message(d.dialogue_label.dialogue_reference,
            last_message(d).message_id + 1,
            target_message_id,
            performative,
            AgentAddress,
            d.dialogue_label.dialogue_opponent_addr)

Dialogue_reply(d, target_message_id, performative, hook) ==
    IF last_message(d) = None THEN Raise("AssertionError")
    ELSE Dialogue_update(d, reply_message(d, target_message_id, performative), hook)

\* Dialogue._interleave: zip_longest pairs the lists, padding the shorter with
\* None; chain flattens the pairs; the None are dropped
_interleave(list_1, list_2) ==
    LET n == IF Len(list_1) > Len(list_2) THEN Len(list_1) ELSE Len(list_2)
        padded(list, i) == IF i <= Len(list) THEN list[i] ELSE None
        chained == [k \in 1..(2 * n) |->
                      IF k % 2 = 1 THEN padded(list_1, (k + 1) \div 2)
                      ELSE padded(list_2, k \div 2)]
        kept(element) == element # None
    IN  SelectSeq(chained, kept)

\* Dialogue.__str__, the messages it lists
all_messages(d) ==
    IF d.is_self_initiated
    THEN _interleave(d.outgoing_messages, d.incoming_messages)
    ELSE _interleave(d.incoming_messages, d.outgoing_messages)

\* Dialogue.__str__: the lines of the representation, the first for the label
\* and one for the performative of each message listed
Dialogue_str(d) ==
    <<d.dialogue_label>> \o [i \in 1..Len(all_messages(d)) |->
                                all_messages(d)[i].performative]

\* variant of update_dialogue_label: the label is left as it is
update_dialogue_label_kept(d, final_dialogue_label) ==
    IF d.dialogue_label.dialogue_reference[2] = UNASSIGNED_DIALOGUE_REFERENCE
       /\ final_dialogue_label.dialogue_reference[2] # UNASSIGNED_DIALOGUE_REFERENCE
    THEN d
    ELSE Raise("AssertionError")

\* variant of update_dialogue_label: a complete label is replaced too
update_dialogue_label_any(d, final_dialogue_label) ==
    IF final_dialogue_label.dialogue_reference[2] # UNASSIGNED_DIALOGUE_REFERENCE
    THEN [d EXCEPT !.dialogue_label = final_dialogue_label]
    ELSE Raise("AssertionError")

update_dialogue_label(d, final_dialogue_label) ==
    IF d.dialogue_label.dialogue_reference[2] = UNASSIGNED_DIALOGUE_REFERENCE
       /\ final_dialogue_label.dialogue_reference[2] # UNASSIGNED_DIALOGUE_REFERENCE
    THEN [d EXCEPT !.dialogue_label = final_dialogue_label]
    ELSE Raise("AssertionError")

(***************************************************************************)
(* The conversions of DialogueLabel.  Here a Python string is the sequence *)
(* of its characters, and a dict is a function on its keys.                *)
(***************************************************************************)
\* variant of json: the two addresses change places
json_swapped(label) ==
    [dialogue_starter_reference |-> label.dialogue_reference[1],
     dialogue_responder_reference |-> label.dialogue_reference[2],
     dialogue_opponent_addr |-> label.dialogue_starter_addr,
     dialogue_starter_addr |-> label.dialogue_opponent_addr]

\* DialogueLabel.json
json(label) ==
    [dialogue_starter_reference |-> label.dialogue_reference[1],
     dialogue_responder_reference |-> label.dialogue_reference[2],
     dialogue_opponent_addr |-> label.dialogue_opponent_addr,
     dialogue_starter_addr |-> label.dialogue_starter_addr]

\* dict.get: the value of the key, None without it
get(obj, key) == IF key \in DOMAIN obj THEN obj[key] ELSE None

\* DialogueLabel.from_json
from_json(obj) ==
    DialogueLabel(<<get(obj, "dialogue_starter_reference"),
                    get(obj, "dialogue_responder_reference")>>,
                  get(obj, "dialogue_opponent_addr"),
                  get(obj, "dialogue_starter_addr"))

\* variant of DialogueLabel_str: the addresses before the references
DialogueLabel_str_addresses_first(label) ==
    label.dialogue_opponent_addr \o <<"_">>
    \o label.dialogue_starter_addr \o <<"_">>
    \o label.dialogue_reference[1] \o <<"_">>
    \o label.dialogue_reference[2]

\* DialogueLabel.__str__: "{}_{}_{}_{}".format(...)
DialogueLabel_str(label) ==
    label.dialogue_reference[1] \o <<"_">>
    \o label.dialogue_reference[2] \o <<"_">>
    \o label.dialogue_opponent_addr \o <<"_">>
    \o label.dialogue_starter_addr

\* str.split(sep): the pieces between the occurrences of sep, empty ones kept
RECURSIVE split(_, _)
split(obj, sep) ==
    LET at == {i \in 1..Len(obj) : obj[i] = sep}
    IN  IF at = {} THEN <<obj>>
        ELSE LET i == CHOOSE x \in at : \A y \in at : x <= y
             IN  <<SubSeq(obj, 1, i - 1)>> \o split(SubSeq(obj, i + 1, Len(obj)), sep)

\* DialogueLabel.from_str: unpacking obj.split("_") into four names raises
\* ValueError unless there are four pieces
from_str(obj) ==
    LET parts == split(obj, "_")
    IN  IF Len(parts) # 4 THEN Raise("ValueError")
        ELSE DialogueLabel(<<parts[1], parts[2]>>, parts[3], parts[4])

(***************************************************************************)
(* DialogueStats.                                                          *)
(***************************************************************************)
\* DialogueStats.__init__
DialogueStats(end_states) ==
    [self_initiated |-> [e \in end_states |-> 0],
     other_initiated |-> [e \in end_states |-> 0]]

\* variant of add_dialogue_endstate: the flag is not looked at
add_dialogue_endstate_self(stats, end_state, is_self_initiated) ==
    IF end_state \notin DOMAIN stats.self_initiated THEN Raise("AssertionError")
    ELSE [stats EXCEPT !.self_initiated[end_state] = @ + 1]

\* DialogueStats.add_dialogue_endstate: the statistics after the call, or the
\* exception raised
add_dialogue_endstate(stats, end_state, is_self_initiated) ==
    IF is_self_initiated
    THEN IF end_state \notin DOMAIN stats.self_initiated THEN Raise("AssertionError")
         ELSE [stats EXCEPT !.self_initiated[end_state] = @ + 1]
    ELSE IF end_state \notin DOMAIN stats.other_initiated THEN Raise("AssertionError")
         ELSE [stats EXCEPT !.other_initiated[end_state] = @ + 1]

(***************************************************************************)
(* Dialogues (the registry).  Its methods are operators on the registry    *)
(* value `reg` = [dialogues, incomplete_to_complete, nonce_count]; each    *)
(* returns the registry after the call and the value returned or the       *)
(* exception raised.                                                       *)
(***************************************************************************)
Put(f, k, v) == [x \in DOMAIN f \cup {k} |-> IF x = k THEN v ELSE f[x]]
\* variant of Pop: the entry stays
Pop_kept(f, k) == f
Pop(f, k) == [x \in DOMAIN f \ {k} |-> f[x]]
EmptyMap == [x \in {} |-> x]

Out(reg, result) == [reg |-> reg, result |-> result]

\* secrets.token_hex(32): a value the registry has not drawn before and no
\* peer has seen
Nonce(k) == "n" \o ToString(k)

\* variant of _generate_dialogue_nonce: the source repeats its first nonce
_generate_dialogue_nonce_first(reg) ==
    Out([reg EXCEPT !.nonce_count = @ + 1], Nonce(1))

_generate_dialogue_nonce(reg) ==
    Out([reg EXCEPT !.nonce_count = @ + 1], Nonce(reg.nonce_count + 1))

new_self_initiated_dialogue_reference(reg) ==
    LET g == _generate_dialogue_nonce(reg)
    IN  Out(g.reg, <<g.result, UNASSIGNED_DIALOGUE_REFERENCE>>)

\* variant of _create: an incomplete label already promoted is accepted
_create_again(reg, incomplete_dialogue_label, role, complete_dialogue_label, self_initiated) ==
    LET reg1 == IF complete_dialogue_label = None THEN reg
                ELSE [reg EXCEPT !.incomplete_to_complete =
                         Put(@, incomplete_dialogue_label, complete_dialogue_label)]
        dialogue_label == IF complete_dialogue_label = None
                          THEN incomplete_dialogue_label
                          ELSE complete_dialogue_label
        dialogue == NewDialogue(dialogue_label, role, self_initiated, reg.nonce_count)
    IN  IF dialogue_label \in DOMAIN reg1.dialogues
        THEN Out(reg1, Raise("AssertionError"))
        ELSE Out([reg1 EXCEPT !.dialogues = Put(@, dialogue_label, dialogue)], dialogue)

\* Dialogues._create; `self_initiated` is the outcome of the identity test of
\* Dialogue.__init__ on the two addresses of the label
_create(reg, incomplete_dialogue_label, role, complete_dialogue_label, self_initiated) ==
    LET reg1 == IF complete_dialogue_label = None THEN reg
                ELSE [reg EXCEPT !.incomplete_to_complete =
                         Put(@, incomplete_dialogue_label, complete_dialogue_label)]
        dialogue_label == IF complete_dialogue_label = None
                          THEN incomplete_dialogue_label
                          ELSE complete_dialogue_label
        dialogue == NewDialogue(dialogue_label, role, self_initiated, reg.nonce_count)
    IN  IF incomplete_dialogue_label \in DOMAIN reg.incomplete_to_complete
        THEN Out(reg, Raise("AssertionError"))
        ELSE IF dialogue_label \in DOMAIN reg1.dialogues
        THEN Out(reg1, Raise("AssertionError"))
        ELSE Out([reg1 EXCEPT !.dialogues = Put(@, dialogue_label, dialogue)], dialogue)

\* `same_object`: whether the counterparty address is the very object that is
\* the registry's agent address (possible only for equal strings)
_create_self_initiated(reg, dialogue_opponent_addr, dialogue_reference, role, same_object) ==
    IF ~(dialogue_reference[1] # UNASSIGNED_DIALOGUE_REFERENCE
         /\ dialogue_reference[2] = UNASSIGNED_DIALOGUE_REFERENCE)
    THEN Out(reg, Raise("AssertionError"))
    ELSE _create(reg,
                 DialogueLabel(dialogue_reference, dialogue_opponent_addr, AgentAddress),
                 role, None, ~same_object)

\* variant of _create_opponent_initiated: no complete label is made
_create_opponent_initiated_incomplete(reg, dialogue_opponent_addr, dialogue_reference, role) ==
    IF ~(dialogue_reference[1] # UNASSIGNED_DIALOGUE_REFERENCE
         /\ dialogue_reference[2] = UNASSIGNED_DIALOGUE_REFERENCE)
    THEN Out(reg, Raise("AssertionError"))
    ELSE LET g == _generate_dialogue_nonce(reg)
         IN  _create(g.reg,
                     DialogueLabel(dialogue_reference,
                                   dialogue_opponent_addr, dialogue_opponent_addr),
                     role, None, FALSE)

_create_opponent_initiated(reg, dialogue_opponent_addr, dialogue_reference, role) ==
    IF ~(dialogue_reference[1] # UNASSIGNED_DIALOGUE_REFERENCE
         /\ dialogue_reference[2] = UNASSIGNED_DIALOGUE_REFERENCE)
    THEN Out(reg, Raise("AssertionError"))
    ELSE LET g == _generate_dialogue_nonce(reg)
         IN  _create(g.reg,
                     DialogueLabel(dialogue_reference,
                                   dialogue_opponent_addr, dialogue_opponent_addr),
                     role,
                     DialogueLabel(<<dialogue_reference[1], g.result>>,
                                   dialogue_opponent_addr, dialogue_opponent_addr),
                     FALSE)

get_latest_label(reg, dialogue_label) ==
    IF dialogue_label \in DOMAIN reg.incomplete_to_complete
    THEN reg.incomplete_to_complete[dialogue_label]
    ELSE dialogue_label

\* variant of get_dialogue_from_label: the dialogue is looked for under the
\* incomplete form of the label
get_dialogue_from_label_incomplete(reg, dialogue_label) ==
    IF get_incomplete_version(dialogue_label) \in DOMAIN reg.dialogues
    THEN reg.dialogues[get_incomplete_version(dialogue_label)]
    ELSE None

get_dialogue_from_label(reg, dialogue_label) ==
    IF dialogue_label \in DOMAIN reg.dialogues
    THEN reg.dialogues[dialogue_label]
    ELSE None

other_initiated_dialogue_label(message, opponent) ==
    DialogueLabel(message.dialogue_reference, opponent, message.to)

get_dialogue(reg, message) ==
    LET opponent == IF is_message_by_self(message) THEN message.to ELSE message.sender
        self_initiated_dialogue ==
            get_dialogue_from_label(reg, get_latest_label(reg,
                DialogueLabel(message.dialogue_reference, opponent, AgentAddress)))
        other_initiated_dialogue ==
            get_dialogue_from_label(reg, get_latest_label(reg,
                other_initiated_dialogue_label(message, opponent)))
    IN  \* `a or b`: a dialogue object is truthy, None is not
        IF self_initiated_dialogue # None THEN self_initiated_dialogue
        ELSE other_initiated_dialogue

\* variant of _complete_dialogue_reference: the incomplete label is looked up
\* by its reference alone, whoever the sender is
_complete_dialogue_reference_any_sender(reg, message) ==
    LET complete_dialogue_reference == message.dialogue_reference
        candidates ==
            {k \in DOMAIN reg.dialogues :
                /\ k.dialogue_reference = <<complete_dialogue_reference[1],
                                            UNASSIGNED_DIALOGUE_REFERENCE>>
                /\ k.dialogue_starter_addr = AgentAddress}
        incomplete_dialogue_label ==
            IF candidates = {}
            THEN DialogueLabel(<<complete_dialogue_reference[1],
                                 UNASSIGNED_DIALOGUE_REFERENCE>>,
                               message.sender, AgentAddress)
            ELSE CHOOSE k \in candidates : TRUE
        final_dialogue_label ==
            DialogueLabel(complete_dialogue_reference,
                          incomplete_dialogue_label.dialogue_opponent_addr,
                          incomplete_dialogue_label.dialogue_starter_addr)
        dialogue == update_dialogue_label(reg.dialogues[incomplete_dialogue_label],
                                          final_dialogue_label)
    IN  IF ~(complete_dialogue_reference[1] # UNASSIGNED_DIALOGUE_REFERENCE
             /\ complete_dialogue_reference[2] # UNASSIGNED_DIALOGUE_REFERENCE)
        THEN Out(reg, Raise("AssertionError"))
        ELSE IF incomplete_dialogue_label \in DOMAIN reg.dialogues
                /\ incomplete_dialogue_label \notin DOMAIN reg.incomplete_to_complete
        THEN IF Raised(dialogue)
             THEN Out([reg EXCEPT !.dialogues = Pop(@, incomplete_dialogue_label)],
                      dialogue)
             ELSE Out([reg EXCEPT
                         !.dialogues = Put(Pop(@, incomplete_dialogue_label),
                                           dialogue.dialogue_label, dialogue),
                         !.incomplete_to_complete =
                             Put(@, incomplete_dialogue_label, final_dialogue_label)],
                      None)
        ELSE Out(reg, None)

\* variant of _complete_dialogue_reference: the dialogue stays under its
\* incomplete label too
_complete_dialogue_reference_kept(reg, message) ==
    LET complete_dialogue_reference == message.dialogue_reference
        incomplete_dialogue_label ==
            DialogueLabel(<<complete_dialogue_reference[1], UNASSIGNED_DIALOGUE_REFERENCE>>,
                          message.sender, AgentAddress)
        final_dialogue_label ==
            DialogueLabel(complete_dialogue_reference,
                          incomplete_dialogue_label.dialogue_opponent_addr,
                          incomplete_dialogue_label.dialogue_starter_addr)
        dialogue == update_dialogue_label(reg.dialogues[incomplete_dialogue_label],
                                          final_dialogue_label)
    IN  IF ~(complete_dialogue_reference[1] # UNASSIGNED_DIALOGUE_REFERENCE
             /\ complete_dialogue_reference[2] # UNASSIGNED_DIALOGUE_REFERENCE)
        THEN Out(reg, Raise("AssertionError"))
        ELSE IF incomplete_dialogue_label \in DOMAIN reg.dialogues
                /\ incomplete_dialogue_label \notin DOMAIN reg.incomplete_to_complete
        THEN IF Raised(dialogue)
             THEN Out(reg, dialogue)
             ELSE Out([reg EXCEPT
                         !.dialogues = Put(@, dialogue.dialogue_label, dialogue),
                         !.incomplete_to_complete =
                             Put(@, incomplete_dialogue_label, final_dialogue_label)],
                      None)
        ELSE Out(reg, None)

_complete_dialogue_reference(reg, message) ==
    LET complete_dialogue_reference == message.dialogue_reference
        incomplete_dialogue_label ==
            DialogueLabel(<<complete_dialogue_reference[1], UNASSIGNED_DIALOGUE_REFERENCE>>,
                          message.sender, AgentAddress)
        final_dialogue_label ==
            DialogueLabel(complete_dialogue_reference,
                          incomplete_dialogue_label.dialogue_opponent_addr,
                          incomplete_dialogue_label.dialogue_starter_addr)
        dialogue == update_dialogue_label(reg.dialogues[incomplete_dialogue_label],
                                          final_dialogue_label)
    IN  IF ~(complete_dialogue_reference[1] # UNASSIGNED_DIALOGUE_REFERENCE
             /\ complete_dialogue_reference[2] # UNASSIGNED_DIALOGUE_REFERENCE)
        THEN Out(reg, Raise("AssertionError"))
        ELSE IF incomplete_dialogue_label \in DOMAIN reg.dialogues
                /\ incomplete_dialogue_label \notin DOMAIN reg.incomplete_to_complete
        THEN IF Raised(dialogue)
             THEN Out([reg EXCEPT !.dialogues = Pop(@, incomplete_dialogue_label)],
                      dialogue)
             ELSE Out([reg EXCEPT
                         !.dialogues = Put(Pop(@, incomplete_dialogue_label),
                                           dialogue.dialogue_label, dialogue),
                         !.incomplete_to_complete =
                             Put(@, incomplete_dialogue_label, final_dialogue_label)],
                      None)
        ELSE Out(reg, None)

\* the tail of Dialogues.update: hand the message to the dialogue found.  The
\* dialogue object is mutated in place, under the key it is stored at
\* a dialogue object is mutated in place: the map holds the object as it is
\* now under every key that refers to it
Mutated(ds, u) == [k \in DOMAIN ds |-> IF ds[k].oid = u.oid THEN u ELSE ds[k]]

\* variant of update_found: the dialogue found is returned also when it
\* refuses the message
update_found_returned(reg, dialogue, message, hook) ==
    IF dialogue = None THEN Out(reg, None)
    ELSE LET u == Dialogue_update(dialogue, message, hook)
         IN  IF Raised(u)
             THEN IF u.raised = "InvalidDialogueMessage"
                  THEN Out(reg, dialogue)
                  ELSE Out(reg, u)
             ELSE Out([reg EXCEPT !.dialogues = Mutated(@, u)], u)

update_found(reg, dialogue, message, hook) ==
    IF dialogue = None THEN Out(reg, None)
    ELSE LET u == Dialogue_update(dialogue, message, hook)
         IN  IF Raised(u)
             THEN IF u.raised = "InvalidDialogueMessage"
                  THEN Out(reg, None)
                  ELSE Out(reg, u)
             ELSE Out([reg EXCEPT !.dialogues = Mutated(@, u)], u)

\* variant of Dialogues_update: the sender and the recipient of the message
\* are not looked at
Dialogues_update_unchecked(reg, message, hook) ==
    LET dialogue_reference == message.dialogue_reference
        is_invalid_label ==
            dialogue_reference[1] = UNASSIGNED_DIALOGUE_REFERENCE
            /\ dialogue_reference[2] = UNASSIGNED_DIALOGUE_REFERENCE
        is_new_dialogue ==
            dialogue_reference[1] # UNASSIGNED_DIALOGUE_REFERENCE
            /\ dialogue_reference[2] = UNASSIGNED_DIALOGUE_REFERENCE
            /\ message.message_id = 1
        created == _create_opponent_initiated(reg, message.sender, dialogue_reference,
                                              role_from_first_message(message))
        completed == _complete_dialogue_reference(reg, message)
    IN  IF is_invalid_label THEN update_found(reg, None, message, hook)
        ELSE IF is_new_dialogue
             THEN IF Raised(created.result) THEN created
                  ELSE update_found(created.reg, created.result, message, hook)
        ELSE IF Raised(completed.result) THEN completed
             ELSE update_found(completed.reg, get_dialogue(completed.reg, message),
                               message, hook)

\* variant of Dialogues_update: the reference ("","") is not set apart
Dialogues_update_no_invalid_label(reg, message, hook) ==
    LET dialogue_reference == message.dialogue_reference
        is_new_dialogue ==
            dialogue_reference[1] # UNASSIGNED_DIALOGUE_REFERENCE
            /\ dialogue_reference[2] = UNASSIGNED_DIALOGUE_REFERENCE
            /\ message.message_id = 1
        created == _create_opponent_initiated(reg, message.sender, dialogue_reference,
                                              role_from_first_message(message))
        completed == _complete_dialogue_reference(reg, message)
    IN  IF ~is_message_by_other(message) THEN Out(reg, Raise("AssertionError"))
        ELSE IF message.to = Unset THEN Out(reg, Raise("AssertionError"))
        ELSE IF is_new_dialogue
             THEN IF Raised(created.result) THEN created
                  ELSE update_found(created.reg, created.result, message, hook)
        ELSE IF Raised(completed.result) THEN completed
             ELSE update_found(completed.reg, get_dialogue(completed.reg, message),
                               message, hook)

Dialogues_update(reg, message, hook) ==
    LET dialogue_reference == message.dialogue_reference
        is_invalid_label ==
            dialogue_reference[1] = UNASSIGNED_DIALOGUE_REFERENCE
            /\ dialogue_reference[2] = UNASSIGNED_DIALOGUE_REFERENCE
        is_new_dialogue ==
            dialogue_reference[1] # UNASSIGNED_DIALOGUE_REFERENCE
            /\ dialogue_reference[2] = UNASSIGNED_DIALOGUE_REFERENCE
            /\ message.message_id = 1
        created == _create_opponent_initiated(reg, message.sender, dialogue_reference,
                                              role_from_first_message(message))
        completed == _complete_dialogue_reference(reg, message)
    IN  IF ~is_message_by_other(message) THEN Out(reg, Raise("AssertionError"))
        ELSE IF message.to = Unset THEN Out(reg, Raise("AssertionError"))
        ELSE IF is_invalid_label THEN update_found(reg, None, message, hook)
        ELSE IF is_new_dialogue
             THEN IF Raised(created.result) THEN created
                  ELSE update_found(created.reg, created.result, message, hook)
        ELSE IF Raised(completed.result) THEN completed
             ELSE update_found(completed.reg, get_dialogue(completed.reg, message),
                               message, hook)

Dialogues_create(reg, counterparty, performative, hook, same_object) ==
    LET ref == new_self_initiated_dialogue_reference(reg)
        initial_message == Message(ref.result, STARTING_MESSAGE_ID, STARTING_TARGET,
                                   performative, AgentAddress, counterparty)
        created == _create_self_initiated(ref.reg, counterparty,
                                          initial_message.dialogue_reference,
                                          role_from_first_message(initial_message),
                                          same_object)
        u == Dialogue_update(created.result, initial_message, hook)
    IN  IF Raised(created.result) THEN created
        ELSE IF Raised(u)
             THEN IF u.raised = "InvalidDialogueMessage"
                  THEN Out([created.reg EXCEPT
                               !.dialogues = Pop(@, created.result.dialogue_label)],
                           Raise("SyntaxError"))
                  ELSE Out(created.reg, u)
             ELSE Out([created.reg EXCEPT !.dialogues[u.dialogue_label] = u],
                      [message |-> initial_message, dialogue |-> u])

(***************************************************************************)
(* The state machine.  The application calls one public operation at a     *)
(* time (the core is single-threaded and every operation runs to           *)
(* completion); `ret` holds the call just made, with the registry before   *)
(* it and its outcome, until the caller takes the outcome.                 *)
(***************************************************************************)
Idle == [op |-> "idle"]

Registry == [dialogues |-> dialogues,
             incomplete_to_complete |-> incomplete_to_complete,
             nonce_count |-> nonce_count]

\* dialogue references a peer can put in a message: its own, the unassigned
\* one, and every nonce the registry has handed out
References == {UNASSIGNED_DIALOGUE_REFERENCE, "r1"} \cup {Nonce(k) : k \in 1..nonce_count}

MessageIds == 1..MaxMsgs
Targets == 0..(MaxMsgs - 1)

\* the performatives the callers use: the initial one, one with replies and
\* one without
InputPerformatives == {"performative_pt", "performative_pct", "performative_mt"}

\* message_id, target and performative of the messages offered: every id and
\* target with the initial performative, and every performative with the
\* target that precedes the id
Contents ==
    {c \in [message_id : MessageIds, target : Targets, performative : InputPerformatives] :
        c.performative = "performative_pt" \/ c.target = c.message_id - 1}

\* where a peer's message is addressed: to the agent; carol also addresses
\* messages to herself
Recipients(sender) == {AgentAddress} \cup ({sender} \cap {"carol"})

\* the addresses the application opens dialogues with
Counterparties == {AgentAddress, "bob"}

\* messages the transport can hand to Dialogues.update
InboundMessages ==
    UNION {{Message(<<r1, r2>>, c.message_id, c.target, c.performative, s, to) :
               r1 \in References, r2 \in References, c \in Contents,
               to \in Recipients(s)} : s \in Peers}

\* calls of Dialogues.update that break its preconditions
SelfSentMessages ==
    {Message(<<r1, "r1">>, 2, 1, "performative_pt", AgentAddress, to) :
        r1 \in References, to \in Peers}
NoToMessages ==
    {Message(<<r1, "r1">>, 2, 1, "performative_pt", s, Unset) :
        r1 \in References, s \in Peers}

\* messages the application can hand to Dialogue.update of dialogue d: with
\* a reference of d or a foreign one, outgoing (sender unset or the agent) to
\* either peer, or incoming from either peer
DialogueReferences(d) ==
    {d.dialogue_label.dialogue_reference,
     d.incomplete_dialogue_label.dialogue_reference,
     <<d.dialogue_label.dialogue_reference[1], "r1">>,
     <<"r1", "r1">>}

DirectMessages(d) ==
    {Message(r, c.message_id, c.target, c.performative, a[1], a[2]) :
        r \in DialogueReferences(d), c \in Contents,
        a \in ({Unset, AgentAddress} \X Peers) \cup (Peers \X {AgentAddress})}

\* the registries the model explores
RECURSIVE SumLen(_, _)
SumLen(f, keys) ==
    IF keys = {} THEN 0
    ELSE LET k == CHOOSE x \in keys : TRUE
         IN  Len(f[k].outgoing_messages) + Len(f[k].incoming_messages)
             + SumLen(f, keys \ {k})

Bounded(reg, size) ==
    /\ reg.nonce_count <= MaxNonces
    /\ reg.nonce_count + SumLen(reg.dialogues, DOMAIN reg.dialogues) <= size

Within(reg) == Bounded(reg, MaxSize)

\* the dialogue object with identity oid in a registry's map, as a set
Object(ds, oid) == {ds[k] : k \in {x \in DOMAIN ds : ds[x].oid = oid}}

Oids(ds) == {ds[k].oid : k \in DOMAIN ds}

\* the messages a call added to the logs of dialogue d, given the object before
NewMessages(before, d) ==
    LET old == IF before = {} THEN NewDialogue(d.dialogue_label, d.role, TRUE, d.oid)
               ELSE CHOOSE b \in before : TRUE
    IN  SubSeq(d.outgoing_messages, Len(old.outgoing_messages) + 1,
               Len(d.outgoing_messages))
        \o SubSeq(d.incoming_messages, Len(old.incoming_messages) + 1,
                  Len(d.incoming_messages))

\* the acceptance history after a call that took the registry's map from ds to ds2
Accept(ds, ds2) ==
    [o \in DOMAIN accepted \cup Oids(ds2) |->
        (IF o \in DOMAIN accepted THEN accepted[o] ELSE <<>>)
        \o (IF Object(ds2, o) = {} THEN <<>>
            ELSE NewMessages(Object(ds, o), CHOOSE d \in Object(ds2, o) : TRUE))]

\* A call whose outcome is `ok` when the is_valid hook accepts and `ko` when
\* it rejects: both verdicts are explored when the hook decides the outcome,
\* acceptance alone when the hook is not reached
CallUpTo(op, args, ok, ko, size) ==
    \E hook \in (IF ok = ko THEN {TRUE} ELSE BOOLEAN) :
        LET out == IF hook THEN ok ELSE ko
        IN  /\ Bounded(out.reg, size)
            /\ dialogues' = out.reg.dialogues
            /\ incomplete_to_complete' = out.reg.incomplete_to_complete
            /\ nonce_count' = out.reg.nonce_count
            /\ ret' = [op |-> op, args |-> args, hook |-> hook,
                       pre |-> Registry, result |-> out.result]
            /\ accepted' = Accept(dialogues, out.reg.dialogues)
            /\ UNCHANGED <<dialogue_stats, recorded>>

Call(op, args, ok, ko) == CallUpTo(op, args, ok, ko, MaxSize)

Init ==
    /\ dialogues = EmptyMap
    /\ incomplete_to_complete = EmptyMap
    /\ nonce_count = 0
    /\ ret = Idle
    /\ accepted = EmptyMap
    /\ dialogue_stats = DialogueStats(END_STATES)
    /\ recorded = 0

\* Dialogues.create(counterparty, performative)
Create ==
    /\ ret = Idle
    /\ \E counterparty \in Counterparties, performative \in InputPerformatives :
         \E same_object \in (IF counterparty = AgentAddress THEN BOOLEAN ELSE {FALSE}) :
            \E ok \in {Dialogues_create(Registry, counterparty, performative, TRUE,
                                        same_object)},
               ko \in {Dialogues_create(Registry, counterparty, performative, FALSE,
                                        same_object)} :
               Call("Dialogues.create",
                    [counterparty |-> counterparty, performative |-> performative],
                    ok, ko)

\* Dialogues.update(message)
Update ==
    /\ ret = Idle
    /\ \E message \in InboundMessages \cup SelfSentMessages \cup NoToMessages :
         \E ok \in {Dialogues_update(Registry, message, TRUE)},
            ko \in {Dialogues_update(Registry, message, FALSE)} :
            Call("Dialogues.update", [message |-> message], ok, ko)

\* the registry after Dialogue.update or Dialogue.reply on the dialogue stored
\* at key left u, and the value the call returns
Direct(key, u, value) ==
    IF Raised(u) THEN Out(Registry, u)
    ELSE Out([Registry EXCEPT !.dialogues[key] = u], value)

\* Dialogue.update(message) on a dialogue of the registry
DialogueUpdate ==
    /\ ret = Idle
    /\ \E key \in DOMAIN dialogues :
       \E message \in DirectMessages(dialogues[key]) :
         \E ok \in {Direct(key, Dialogue_update(dialogues[key], message, TRUE), None)},
            ko \in {Direct(key, Dialogue_update(dialogues[key], message, FALSE), None)} :
            Call("Dialogue.update", [key |-> key, message |-> message], ok, ko)

\* Dialogue.reply(target_message, performative) on a dialogue of the registry
Replied(key, u) == Direct(key, u, IF Raised(u) THEN None ELSE last_message(u))

DialogueReply ==
    /\ ret = Idle
    /\ \E key \in DOMAIN dialogues, target \in Targets \cup {MaxMsgs},
          performative \in InputPerformatives :
         /\ IF is_empty(dialogues[key]) THEN TRUE
            ELSE last_message(dialogues[key]).message_id < MaxMsgs
         /\ \E ok \in {Replied(key, Dialogue_reply(dialogues[key], target,
                                                   performative, TRUE))},
               ko \in {Replied(key, Dialogue_reply(dialogues[key], target,
                                                   performative, FALSE))} :
               Call("Dialogue.reply",
                    [key |-> key, target |-> target, performative |-> performative],
                    ok, ko)

\* the caller takes the outcome
Return ==
    /\ ret # Idle
    /\ ret' = Idle
    /\ UNCHANGED <<dialogues, incomplete_to_complete, nonce_count, accepted,
                   dialogue_stats, recorded>>

Next == Create \/ Update \/ DialogueReply \/ Return

Spec == Init /\ [][Next]_vars

(***************************************************************************)
(* The dialogue-level interface: the application also hands messages to    *)
(* Dialogue.update itself.  The registry is only asked to open dialogues.  *)
(***************************************************************************)
\* first messages of a peer's new dialogue
OpeningMessages ==
    {Message(<<"r1", UNASSIGNED_DIALOGUE_REFERENCE>>, STARTING_MESSAGE_ID, t, p,
             s, AgentAddress) :
        t \in {0, 1}, p \in InputPerformatives, s \in Peers}

\* Dialogues.update(message) with the first message of a dialogue
Open ==
    /\ ret = Idle
    /\ \E message \in OpeningMessages :
         \E ok \in {Dialogues_update(Registry, message, TRUE)},
            ko \in {Dialogues_update(Registry, message, FALSE)} :
            Call("Dialogues.update", [message |-> message], ok, ko)

NextDialogue == Create \/ Open \/ DialogueUpdate \/ DialogueReply \/ Return

SpecDialogue == Init /\ [][NextDialogue]_vars

(***************************************************************************)
(* Dialogues run to their closing message: bob and the application         *)
(* exchange messages with message_id up to MaxMsgs + 1, each with the      *)
(* target that precedes its id.                                            *)
(***************************************************************************)
ClosingContents ==
    {c \in [message_id : 1..(MaxMsgs + 1), target : 0..MaxMsgs,
            performative : InputPerformatives] : c.target = c.message_id - 1}

\* the references bob puts in his messages: that of a new dialogue of his and
\* those of the dialogues stored, with the responder reference of the label,
\* none and his own
ClosingReferences ==
    {<<"r1", UNASSIGNED_DIALOGUE_REFERENCE>>}
    \cup UNION {{dialogues[key].dialogue_label.dialogue_reference,
                 dialogues[key].incomplete_dialogue_label.dialogue_reference,
                 <<dialogues[key].dialogue_label.dialogue_reference[1], "r1">>} :
                key \in DOMAIN dialogues}

\* Dialogues.update(message) with a message of bob
UpdateClosing ==
    /\ ret = Idle
    /\ \E r \in ClosingReferences, c \in ClosingContents :
         \E message \in {Message(r, c.message_id, c.target, c.performative,
                                  "bob", AgentAddress)} :
            CallUpTo("Dialogues.update", [message |-> message],
                     Dialogues_update(Registry, message, TRUE),
                     Dialogues_update(Registry, message, FALSE), MaxClosing)

\* Dialogue.update(message) on a dialogue of the registry, with a message in
\* either direction
DialogueUpdateClosing ==
    /\ ret = Idle
    /\ \E key \in DOMAIN dialogues :
       \E r \in {dialogues[key].dialogue_label.dialogue_reference,
                 <<dialogues[key].dialogue_label.dialogue_reference[1], "r1">>},
          c \in ClosingContents,
          a \in {<<Unset, "bob">>, <<"bob", AgentAddress>>} :
         \E message \in {Message(r, c.message_id, c.target, c.performative,
                                  a[1], a[2])} :
            CallUpTo("Dialogue.update", [key |-> key, message |-> message],
                     Direct(key, Dialogue_update(dialogues[key], message, TRUE), None),
                     Direct(key, Dialogue_update(dialogues[key], message, FALSE), None),
                     MaxClosing)

\* Dialogue.reply(target_message, performative) on a dialogue of the registry
DialogueReplyClosing ==
    /\ ret = Idle
    /\ \E key \in DOMAIN dialogues, target \in 0..MaxMsgs,
          performative \in InputPerformatives :
         CallUpTo("Dialogue.reply",
                  [key |-> key, target |-> target, performative |-> performative],
                  Replied(key, Dialogue_reply(dialogues[key], target, performative, TRUE)),
                  Replied(key, Dialogue_reply(dialogues[key], target, performative, FALSE)),
                  MaxClosing)

NextClosing ==
    Create \/ UpdateClosing \/ DialogueUpdateClosing \/ DialogueReplyClosing \/ Return

SpecClosing == Init /\ [][NextClosing]_vars

(***************************************************************************)
(* The label interface: the application also calls update_dialogue_label   *)
(* on the dialogues it holds.                                              *)
(***************************************************************************)
\* the labels offered as final label of dialogue d: the reference of d with
\* the responder reference unassigned, a peer's, or a nonce the registry has
\* drawn
FinalLabels(d) ==
    {DialogueLabel(<<d.dialogue_label.dialogue_reference[1], r2>>,
                   d.dialogue_label.dialogue_opponent_addr,
                   d.dialogue_label.dialogue_starter_addr) :
        r2 \in {UNASSIGNED_DIALOGUE_REFERENCE, "r1", Nonce(1)}}

\* Dialogue.update_dialogue_label(final_dialogue_label) on a dialogue of the
\* registry
DialogueUpdateLabel ==
    /\ ret = Idle
    /\ \E key \in DOMAIN dialogues :
       \E final \in FinalLabels(dialogues[key]) :
         \E u \in {update_dialogue_label(dialogues[key], final)} :
            Call("Dialogue.update_dialogue_label", [key |-> key, final |-> final],
                 Direct(key, u, None), Direct(key, u, None))

NextLabel == Create \/ Update \/ DialogueReply \/ DialogueUpdateLabel \/ Return

SpecLabel == Init /\ [][NextLabel]_vars

(***************************************************************************)
(* The statistics interface: the application records the end states of     *)
(* its dialogues.                                                          *)
(***************************************************************************)
\* the end states the application passes: the declared ones and one that the
\* protocol does not declare
EndStateInputs == END_STATES \cup {"END_STATE_4"}

\* DialogueStats.add_dialogue_endstate(end_state, is_self_initiated)
AddDialogueEndstate ==
    /\ ret = Idle
    /\ recorded < MaxEndStates
    /\ \E end_state \in EndStateInputs, is_self_initiated \in BOOLEAN :
         \E out \in {add_dialogue_endstate(dialogue_stats, end_state, is_self_initiated)} :
            /\ dialogue_stats' = IF Raised(out) THEN dialogue_stats ELSE out
            /\ recorded' = IF Raised(out) THEN recorded ELSE recorded + 1
            /\ ret' = [op |-> "DialogueStats.add_dialogue_endstate",
                       args |-> [end_state |-> end_state,
                                 is_self_initiated |-> is_self_initiated],
                       pre |-> dialogue_stats,
                       result |-> IF Raised(out) THEN out ELSE None]
            /\ UNCHANGED <<dialogues, incomplete_to_complete, nonce_count, accepted>>

NextStats == AddDialogueEndstate \/ Return

SpecStats == Init /\ [][NextStats]_vars

(***************************************************************************)
(* The registry with its nonce source called directly.                     *)
(***************************************************************************)
\* Dialogues.new_self_initiated_dialogue_reference()
NewReference ==
    /\ ret = Idle
    /\ \E out \in {new_self_initiated_dialogue_reference(Registry)} :
          Call("Dialogues.new_self_initiated_dialogue_reference", <<>>, out, out)

NextNonce == NewReference \/ Create \/ Update \/ Return

SpecNonce == Init /\ [][NextNonce]_vars

(***************************************************************************)
(* The conversions of labels: a label is drawn, converted and converted    *)
(* back.                                                                   *)
(***************************************************************************)
\* the strings of at most MaxChars characters over a letter and the
\* separator
Chars == {"a", "_"}
Strings == UNION {[1..n -> Chars] : n \in 0..MaxChars}

CodecLabels ==
    {DialogueLabel(<<r1, r2>>, o, t) : r1 \in Strings, r2 \in Strings,
                                       o \in Strings, t \in Strings}

InitCodec ==
    /\ dialogues = EmptyMap
    /\ incomplete_to_complete = EmptyMap
    /\ nonce_count = 0
    /\ accepted = EmptyMap
    /\ dialogue_stats = DialogueStats(END_STATES)
    /\ recorded = 0
    /\ \E label \in CodecLabels : ret = [op |-> "label", label |-> label]

Converted(op, label, arg, result) ==
    /\ ret' = [op |-> op, label |-> label, arg |-> arg, result |-> result]
    /\ UNCHANGED <<dialogues, incomplete_to_complete, nonce_count, accepted,
                   dialogue_stats, recorded>>

\* label.json
Json ==
    /\ ret.op = "label"
    /\ Converted("DialogueLabel.json", ret.label, ret.label, json(ret.label))

\* DialogueLabel.from_json(label.json)
FromJson ==
    /\ ret.op = "DialogueLabel.json"
    /\ Converted("DialogueLabel.from_json", ret.label, ret.result, from_json(ret.result))

\* str(label)
Str ==
    /\ ret.op = "label"
    /\ Converted("DialogueLabel.__str__", ret.label, ret.label,
                 DialogueLabel_str(ret.label))

\* DialogueLabel.from_str(str(label))
FromStr ==
    /\ ret.op = "DialogueLabel.__str__"
    /\ Converted("DialogueLabel.from_str", ret.label, ret.result, from_str(ret.result))

NextCodec == Json \/ FromJson \/ Str \/ FromStr

SpecCodec == InitCodec /\ [][NextCodec]_vars

(***************************************************************************)
(* Vocabulary of the properties.                                           *)
(***************************************************************************)
IsDialogue(r) == "oid" \in DOMAIN r

\* the precondition of Dialogues.update
Inbound(m) == m.sender # AgentAddress /\ m.to # Unset

Called(op) == ret.op = op

\* the dialogue at key of the registry before the call / now
Before(key) == ret.pre.dialogues[key]
Now(key) == dialogues[key]

(***************************************************************************)
(* C1: self-initiated two-turn exchange.                                   *)
(***************************************************************************)
\* the call is Dialogues.update with a first reply (complete reference,
\* message_id 2, target 1, a valid reply, accepted by the protocol's is_valid)
\* from the counterparty of a dialogue D that create returned: D is stored
\* under its incomplete label and holds the initial message alone
C1_Case ==
    /\ Called("Dialogues.update")
    /\ LET m == ret.args.message
           k == DialogueLabel(<<m.dialogue_reference[1], UNASSIGNED_DIALOGUE_REFERENCE>>,
                              m.sender, AgentAddress)
       IN  /\ m.sender \in Peers
           /\ m.to = AgentAddress
           /\ m.dialogue_reference[1] # UNASSIGNED_DIALOGUE_REFERENCE
           /\ m.dialogue_reference[2] # UNASSIGNED_DIALOGUE_REFERENCE
           /\ m.message_id = 2
           /\ m.target = 1
           /\ ret.hook
           /\ k \in DOMAIN ret.pre.dialogues
           /\ Before(k).dialogue_label = k
           /\ Before(k).incoming_messages = <<>>
           /\ Len(Before(k).outgoing_messages) = 1
           /\ Before(k).outgoing_messages[1].message_id = 1
           /\ m.performative \in VALID_REPLIES[Before(k).outgoing_messages[1].performative]

\* C1: in that case Dialogues.update returns the same dialogue object D, the
\* message is the one message of D's incoming log, D's label carries the
\* complete reference of the message, and D is stored under the complete label
C1_TwoTurnExchange ==
    C1_Case =>
        LET m == ret.args.message
            k == DialogueLabel(<<m.dialogue_reference[1], UNASSIGNED_DIALOGUE_REFERENCE>>,
                               m.sender, AgentAddress)
            final == DialogueLabel(m.dialogue_reference, m.sender, AgentAddress)
        IN  /\ IsDialogue(ret.result)
            /\ ret.result.oid = Before(k).oid
            /\ ret.result.incoming_messages = <<m>>
            /\ ret.result.outgoing_messages = Before(k).outgoing_messages
            /\ ret.result.dialogue_label = final
            /\ final \in DOMAIN dialogues
            /\ k \notin DOMAIN dialogues
            /\ Now(final) = ret.result

C1_Witness == C1_Case /\ IsDialogue(ret.result)

(***************************************************************************)
(* C2: continuation of an opponent-initiated dialogue.                     *)
(***************************************************************************)
\* the call is Dialogues.update with a message of peer s, addressed to the
\* agent, that continues the opponent-initiated dialogue D of s which the
\* agent has answered: reference of D's label, the next message_id, target the
\* last message, a valid reply, accepted by is_valid
C2_Case ==
    /\ Called("Dialogues.update")
    /\ LET m == ret.args.message
           k == DialogueLabel(m.dialogue_reference, m.sender, m.sender)
       IN  /\ m.sender \in Peers
           /\ m.to = AgentAddress
           /\ m.dialogue_reference[2] # UNASSIGNED_DIALOGUE_REFERENCE
           /\ ret.hook
           /\ k \in DOMAIN ret.pre.dialogues
           /\ ~Before(k).is_self_initiated
           /\ Before(k).dialogue_label = k
           /\ Len(Before(k).incoming_messages) >= 1
           /\ Len(Before(k).outgoing_messages) >= 1
           /\ Before(k).incoming_messages[1].message_id = 1
           /\ last_message(Before(k)) = last_outgoing_message(Before(k))
           /\ m.message_id = last_message(Before(k)).message_id + 1
           /\ m.target = last_message(Before(k)).message_id
           /\ m.performative \in VALID_REPLIES[last_message(Before(k)).performative]

\* C2: in that case Dialogues.update returns D and the message is appended to
\* D's incoming log
C2_Continuation ==
    C2_Case =>
        LET m == ret.args.message
            k == DialogueLabel(m.dialogue_reference, m.sender, m.sender)
        IN  /\ IsDialogue(ret.result)
            /\ ret.result.oid = Before(k).oid
            /\ ret.result.incoming_messages = Append(Before(k).incoming_messages, m)

(***************************************************************************)
(* C3: when Dialogues.update returns None.                                 *)
(***************************************************************************)
\* the dialogues an inbound message is for: the one Dialogues.update opens
\* for the first message of a peer's new dialogue, otherwise the dialogues of
\* the registry the message belongs to
Opening(m) ==
    /\ m.dialogue_reference[1] # UNASSIGNED_DIALOGUE_REFERENCE
    /\ m.dialogue_reference[2] = UNASSIGNED_DIALOGUE_REFERENCE
    /\ m.message_id = 1

Candidates(reg, m) ==
    IF Opening(m)
    THEN {NewDialogue(DialogueLabel(<<m.dialogue_reference[1], Nonce(reg.nonce_count + 1)>>,
                                    m.sender, m.sender),
                      role_from_first_message(m), FALSE, reg.nonce_count + 1)}
    ELSE {reg.dialogues[k] : k \in {x \in DOMAIN reg.dialogues :
                                       is_belonging_to_dialogue(reg.dialogues[x], m)}}

Accepts(d, m, hook) == ~Raised(Dialogue_update(d, m, hook))

\* C3: for an inbound message, Dialogues.update returns None exactly when the
\* reference is ("","") or no dialogue matches or the matching dialogue
\* rejects the message; otherwise it returns the dialogue the message was
\* appended to
C3_NoneIff ==
    (Called("Dialogues.update") /\ Inbound(ret.args.message)) =>
        LET m == ret.args.message
            none == \/ m.dialogue_reference = <<UNASSIGNED_DIALOGUE_REFERENCE,
                                                UNASSIGNED_DIALOGUE_REFERENCE>>
                    \/ \A d \in Candidates(ret.pre, m) : ~Accepts(d, m, ret.hook)
        IN  /\ (ret.result = None) <=> none
            /\ ~none =>
                  /\ IsDialogue(ret.result)
                  /\ ret.result.oid \in {d.oid : d \in Candidates(ret.pre, m)}
                  /\ Len(ret.result.incoming_messages) > 0
                  /\ Last(ret.result.incoming_messages) = m

(***************************************************************************)
(* C4: Dialogues.update never fails on an inbound message.                 *)
(***************************************************************************)
\* C4: a call of Dialogues.update that satisfies the preconditions (sender is
\* not the agent, `to` is set) completes with a dialogue or None: no exception
C4_UpdateNeverFails ==
    (Called("Dialogues.update") /\ Inbound(ret.args.message)) => ~Raised(ret.result)

(***************************************************************************)
(* C5: Dialogues.create.                                                   *)
(***************************************************************************)
\* C5: create with an initial performative (and content is_valid accepts)
\* returns (m, D): m is message 1 with target 0, reference (nonce, ""), from
\* the agent to the counterparty; D is self-initiated, stored under
\* ((nonce,""), counterparty, agent), with outgoing log [m] and empty incoming
\* log; the promotion map is as before
C5_Create ==
    (/\ Called("Dialogues.create")
     /\ ret.args.performative \in INITIAL_PERFORMATIVES
     /\ ret.hook) =>
        /\ ~Raised(ret.result)
        /\ LET m == ret.result.message
               D == ret.result.dialogue
               label == DialogueLabel(m.dialogue_reference, ret.args.counterparty,
                                      AgentAddress)
           IN  /\ m.message_id = 1
               /\ m.target = 0
               /\ m.dialogue_reference[1] # UNASSIGNED_DIALOGUE_REFERENCE
               /\ m.dialogue_reference[2] = UNASSIGNED_DIALOGUE_REFERENCE
               /\ m.performative = ret.args.performative
               /\ m.sender = AgentAddress
               /\ m.to = ret.args.counterparty
               /\ D.is_self_initiated
               /\ D.dialogue_label = label
               /\ label \in DOMAIN dialogues
               /\ Now(label) = D
               /\ label \notin DOMAIN ret.pre.dialogues
               /\ D.outgoing_messages = <<m>>
               /\ D.incoming_messages = <<>>
               /\ incomplete_to_complete = ret.pre.incomplete_to_complete

(***************************************************************************)
(* C6: create rolls the registry back when the initial message is invalid. *)
(***************************************************************************)
\* the initial message of the call fails validation: its performative is not
\* initial, or the is_valid hook rejected it
C6_Case ==
    /\ Called("Dialogues.create")
    /\ \/ ret.args.performative \notin INITIAL_PERFORMATIVES
       \/ ~ret.hook

\* C6: in that case create fails with SyntaxError, and by_label and the
\* promotion map are what they were before the call
C6_CreateRollsBack ==
    C6_Case =>
        /\ ret.result = Raise("SyntaxError")
        /\ dialogues = ret.pre.dialogues
        /\ incomplete_to_complete = ret.pre.incomplete_to_complete

\* a failed create in a registry that holds a dialogue
C6_Witness ==
    /\ C6_Case
    /\ ret.result = Raise("SyntaxError")
    /\ DOMAIN dialogues # {}

(***************************************************************************)
(* C7: Dialogue.reply.                                                     *)
(***************************************************************************)
\* the message Dialogue.reply is to build on the dialogue d
C7_Expected(d, target_message_id, performative) ==
    [dialogue_reference |-> d.dialogue_label.dialogue_reference,
     message_id |-> last_message(d).message_id + 1,
     target |-> target_message_id,
     performative |-> performative,
     sender |-> AgentAddress,
     to |-> d.dialogue_label.dialogue_opponent_addr]

\* C7: a reply on a non-empty dialogue never fails an assertion; when it
\* succeeds, the message with those six fields is appended to the outgoing
\* log, the incoming log is untouched, the message is last_message and it is
\* the value returned
C7_Reply ==
    (Called("Dialogue.reply") /\ ~is_empty(Before(ret.args.key))) =>
        LET d == Before(ret.args.key)
            msg == C7_Expected(d, ret.args.target, ret.args.performative)
        IN  IF Raised(ret.result)
            THEN /\ ret.result = Raise("InvalidDialogueMessage")
                 /\ dialogues = ret.pre.dialogues
            ELSE /\ ret.result = msg
                 /\ Now(ret.args.key).outgoing_messages = Append(d.outgoing_messages, msg)
                 /\ Now(ret.args.key).incoming_messages = d.incoming_messages
                 /\ last_message(Now(ret.args.key)) = msg
                 /\ dialogues = [ret.pre.dialogues EXCEPT ![ret.args.key] = Now(ret.args.key)]

\* a successful reply in a promoted self-initiated dialogue, after an
\* incoming message
C7_Witness ==
    /\ Called("Dialogue.reply")
    /\ ~Raised(ret.result)
    /\ Before(ret.args.key).is_self_initiated
    /\ ret.result.dialogue_reference[2] # UNASSIGNED_DIALOGUE_REFERENCE
    /\ Len(Before(ret.args.key).incoming_messages) > 0

(***************************************************************************)
(* C8: Dialogue.update.                                                    *)
(***************************************************************************)
\* the message as Dialogue.update validates it: an unset sender is the agent
C8_Message == IF ret.args.message.sender = Unset
              THEN [ret.args.message EXCEPT !.sender = AgentAddress]
              ELSE ret.args.message

\* the message belongs to the dialogue and passes the three validations
C8_Passes ==
    /\ is_belonging_to_dialogue(Before(ret.args.key), C8_Message)
    /\ _basic_validation(Before(ret.args.key), C8_Message) = "ok"
    /\ _additional_validation(Before(ret.args.key), C8_Message) = "ok"
    /\ ret.hook

Messages(d) ==
    {d.outgoing_messages[i] : i \in 1..Len(d.outgoing_messages)}
    \cup {d.incoming_messages[i] : i \in 1..Len(d.incoming_messages)}

\* accepted[oid] is the merged log of the dialogue object: its messages are
\* those of the two logs
MergedLog(d) == accepted[d.oid]

\* C9: in the merged log of every dialogue, in the order of acceptance, the
\* first message has message_id 1 and target 0 and every next message has the
\* message_id and the target of its predecessor plus one
C9_Consecutive ==
    \A key \in DOMAIN dialogues :
        LET log == MergedLog(Now(key))
        IN  /\ {log[i] : i \in 1..Len(log)} = Messages(Now(key))
            /\ Len(log) = Len(Now(key).outgoing_messages) + Len(Now(key).incoming_messages)
            /\ Len(log) > 0 => log[1].message_id = 1 /\ log[1].target = 0
            /\ \A i \in 1..(Len(log) - 1) :
                  /\ log[i + 1].message_id = log[i].message_id + 1
                  /\ log[i + 1].target = log[i].target + 1

\* a dialogue with three messages, the last two from the same party
C9_Witness ==
    \E key \in DOMAIN dialogues :
        /\ Len(MergedLog(Now(key))) = 3
        /\ MergedLog(Now(key))[2].sender = MergedLog(Now(key))[3].sender

(***************************************************************************)
(* C10: the reply grammar.                                                 *)
(***************************************************************************)
\* C10: of every dialogue, the first message accepted carries an initial
\* performative, and every other message m a performative of
\* valid_replies[t.performative], t the message of the dialogue whose
\* message_id is m.target
C10_ReplyGrammar ==
    \A key \in DOMAIN dialogues :
        LET log == MergedLog(Now(key))
        IN  \A i \in 1..Len(log) :
               IF i = 1
               THEN log[i].performative \in INITIAL_PERFORMATIVES
               ELSE \E t \in Messages(Now(key)) :
                       /\ t.message_id = log[i].target
                       /\ log[i].performative \in VALID_REPLIES[t.performative]

\* a dialogue whose third message answers a performative other than the
\* initial one
C10_Witness ==
    \E key \in DOMAIN dialogues :
        /\ Len(MergedLog(Now(key))) = 3
        /\ MergedLog(Now(key))[3].performative = "performative_mt"

(***************************************************************************)
(* C11: out-of-order message id.                                           *)
(***************************************************************************)
\* the dialogue object D now, wherever the registry keeps it
SameLogs(D) ==
    /\ Object(dialogues, D.oid) # {}
    /\ \A d \in Object(dialogues, D.oid) :
          /\ d.outgoing_messages = D.outgoing_messages
          /\ d.incoming_messages = D.incoming_messages
          /\ last_message(d) = last_message(D)

\* m carries the reference of dialogue D: the reference of D's label, or, for
\* a self-initiated D whose label is still incomplete, a completion of it
CarriesReference(D, m) ==
    /\ m.sender = D.dialogue_label.dialogue_opponent_addr
    /\ m.dialogue_reference[1] = D.dialogue_label.dialogue_reference[1]
    /\ m.dialogue_reference[2] # UNASSIGNED_DIALOGUE_REFERENCE
    /\ \/ m.dialogue_reference = D.dialogue_label.dialogue_reference
       \/ /\ D.is_self_initiated
          /\ D.dialogue_label.dialogue_reference[2] = UNASSIGNED_DIALOGUE_REFERENCE

\* the dialogues of the registry before the call that the inbound message of
\* Dialogues.update is for and whose last message has an id that the
\* message's id does not follow
C11_Dialogues ==
    IF Called("Dialogues.update") /\ Inbound(ret.args.message)
    THEN {D \in {Before(k) : k \in DOMAIN ret.pre.dialogues} :
             /\ ~is_empty(D)
             /\ CarriesReference(D, ret.args.message)
             /\ ret.args.message.message_id # last_message(D).message_id + 1}
    ELSE {}

\* C11: an inbound message for a dialogue whose message_id is not the
\* successor of the dialogue's last message_id makes Dialogues.update return
\* None, and the two logs and last_message of the dialogue are unchanged
C11_OutOfOrder ==
    \A D \in C11_Dialogues :
        /\ ret.result = None
        /\ SameLogs(D)

\* a promoted self-initiated dialogue with an incoming message gets a message
\* that skips an id or repeats one, otherwise a valid continuation
C11_Witness ==
    \E D \in C11_Dialogues :
        /\ D.is_self_initiated
        /\ Len(D.incoming_messages) > 0
        /\ ret.args.message.dialogue_reference = D.dialogue_label.dialogue_reference
        /\ ret.args.message.target = last_message(D).target + 1
        /\ ret.args.message.performative
              \in VALID_REPLIES[get_message(D, ret.args.message.target).performative]
        /\ ret.hook

(***************************************************************************)
(* C12: the invalid label.                                                 *)
(***************************************************************************)
C12_Case ==
    /\ Called("Dialogues.update")
    /\ Inbound(ret.args.message)
    /\ ret.args.message.dialogue_reference
          = <<UNASSIGNED_DIALOGUE_REFERENCE, UNASSIGNED_DIALOGUE_REFERENCE>>

\* C12: an inbound message with reference ("","") makes Dialogues.update
\* return None and leaves by_label (so every dialogue and its logs) and the
\* promotion map as they were
C12_InvalidLabel ==
    C12_Case =>
        /\ ret.result = None
        /\ dialogues = ret.pre.dialogues
        /\ incomplete_to_complete = ret.pre.incomplete_to_complete

\* such a message, otherwise a valid first message, arrives at a registry
\* that holds a dialogue and a promotion
C12_Witness ==
    /\ C12_Case
    /\ ret.args.message.message_id = STARTING_MESSAGE_ID
    /\ ret.args.message.target = STARTING_TARGET
    /\ ret.args.message.performative \in INITIAL_PERFORMATIVES
    /\ DOMAIN ret.pre.dialogues # {}
    /\ DOMAIN ret.pre.incomplete_to_complete # {}

(***************************************************************************)
(* C13: opponent-initiated creation.                                       *)
(***************************************************************************)
\* the incomplete label a peer's first message names
C13_Incomplete == DialogueLabel(ret.args.message.dialogue_reference,
                                ret.args.message.sender, ret.args.message.sender)

\* a peer's valid first message (accepted by is_valid) for which the registry
\* has no dialogue yet
C13_Case ==
    /\ Called("Dialogues.update")
    /\ Inbound(ret.args.message)
    /\ ret.args.message.dialogue_reference[1] # UNASSIGNED_DIALOGUE_REFERENCE
    /\ ret.args.message.dialogue_reference[2] = UNASSIGNED_DIALOGUE_REFERENCE
    /\ ret.args.message.message_id = 1
    /\ ret.args.message.target = 0
    /\ ret.args.message.performative \in INITIAL_PERFORMATIVES
    /\ ret.hook
    /\ C13_Incomplete \notin DOMAIN ret.pre.dialogues
    /\ C13_Incomplete \notin DOMAIN ret.pre.incomplete_to_complete

\* the references that occur in a registry
ReferencesOf(reg) ==
    UNION {{l.dialogue_reference[1], l.dialogue_reference[2]} :
              l \in DOMAIN reg.dialogues \cup DOMAIN reg.incomplete_to_complete
                    \cup {reg.incomplete_to_complete[k] :
                             k \in DOMAIN reg.incomplete_to_complete}}

\* C13: in that case Dialogues.update returns a new dialogue, not
\* self-initiated, with label ((n3,n4), sender, sender), n4 a fresh nonce;
\* it is stored under that label only, its incoming log is the message alone,
\* and the promotion map gains the entry from the incomplete label to it and
\* no other
C13_OpponentInitiated ==
    C13_Case =>
        /\ IsDialogue(ret.result)
        /\ LET m == ret.args.message
               D == ret.result
               L == D.dialogue_label
           IN  /\ D.oid \notin Oids(ret.pre.dialogues)
               /\ ~D.is_self_initiated
               /\ L.dialogue_reference[1] = m.dialogue_reference[1]
               /\ L.dialogue_reference[2] # UNASSIGNED_DIALOGUE_REFERENCE
               /\ L.dialogue_reference[2] \notin ReferencesOf(ret.pre)
               /\ L.dialogue_reference[2] # m.dialogue_reference[1]
               /\ L.dialogue_opponent_addr = m.sender
               /\ L.dialogue_starter_addr = m.sender
               /\ L \notin DOMAIN ret.pre.dialogues
               /\ dialogues = Put(ret.pre.dialogues, L, D)
               /\ D.incoming_messages = <<m>>
               /\ D.outgoing_messages = <<>>
               /\ incomplete_to_complete
                     = Put(ret.pre.incomplete_to_complete, C13_Incomplete, L)

\* carol opens a dialogue at a registry that already holds one
C13_Witness ==
    /\ C13_Case
    /\ ret.args.message.sender = "carol"
    /\ DOMAIN ret.pre.dialogues # {}
    /\ IsDialogue(ret.result)

(***************************************************************************)
(* C14: reply targeting a non-predecessor.                                 *)
(***************************************************************************)
\* Dialogue.reply on a non-empty dialogue with a target message whose id is
\* not the last message's target plus one
C14_Case ==
    /\ Called("Dialogue.reply")
    /\ ~is_empty(Before(ret.args.key))
    /\ ret.args.target # last_message(Before(ret.args.key)).target + 1

C15_Dialogues ==
    IF Called("Dialogues.update") /\ Inbound(ret.args.message)
    THEN {D \in {Before(k) : k \in DOMAIN ret.pre.dialogues} :
             /\ ~is_empty(D)
             /\ CarriesReference(D, ret.args.message)
             /\ ret.args.message.message_id = last_message(D).message_id + 1
             /\ ret.args.message.target = last_message(D).message_id
             /\ ret.args.message.performative
                   \notin VALID_REPLIES[last_message(D).performative]}
    ELSE {}

\* C15: such a message is rejected: Dialogues.update returns None and the
\* logs of the dialogue are unchanged
C15_ForbiddenReply ==
    \A D \in C15_Dialogues :
        /\ ret.result = None
        /\ SameLogs(D)

\* a peer answers the initial message of a self-initiated dialogue with a
\* performative that is no reply to it, and is_valid would accept
C15_Witness ==
    \E D \in C15_Dialogues :
        /\ D.is_self_initiated
        /\ ret.args.message.to = AgentAddress
        /\ last_message(D).performative = "performative_pt"
        /\ ret.args.message.performative = "performative_mt"
        /\ ret.hook

(***************************************************************************)
(* C16: a label and its incomplete form.                                   *)
(***************************************************************************)
IsComplete(label) == label.dialogue_reference[2] # UNASSIGNED_DIALOGUE_REFERENCE

\* C16: no complete label and its incomplete form are both keys of by_label
C16_OneKey ==
    \A L \in DOMAIN dialogues :
        IsComplete(L) => get_incomplete_version(L) \notin DOMAIN dialogues

\* Dialogues.update has just promoted a self-initiated dialogue, in a
\* registry that also holds an opponent-initiated one
C16_Witness ==
    /\ Called("Dialogues.update")
    /\ \E L \in DOMAIN dialogues :
          /\ IsComplete(L)
          /\ Now(L).is_self_initiated
          /\ get_incomplete_version(L) \in DOMAIN ret.pre.dialogues
    /\ \E L \in DOMAIN dialogues : IsComplete(L) /\ ~Now(L).is_self_initiated

(***************************************************************************)
(* C17: the promotion map is append-only.                                  *)
(***************************************************************************)
\* C17: in every step, every entry of the promotion map stays, with the same
\* complete label
C17_AppendOnly ==
    [][\A k \in DOMAIN incomplete_to_complete :
          /\ k \in DOMAIN incomplete_to_complete'
          /\ incomplete_to_complete'[k] = incomplete_to_complete[k]]_vars

\* create rolls back at a registry that holds promotions
C17_Witness ==
    /\ Called("Dialogues.create")
    /\ ret.result = Raise("SyntaxError")
    /\ DOMAIN ret.pre.incomplete_to_complete # {}
    /\ incomplete_to_complete = ret.pre.incomplete_to_complete

(***************************************************************************)
(* C18: promotion is idempotent.                                           *)
(***************************************************************************)
\* the incomplete and the complete self-initiated label an inbound message
\* names
C18_Incomplete ==
    DialogueLabel(<<ret.args.message.dialogue_reference[1], UNASSIGNED_DIALOGUE_REFERENCE>>,
                  ret.args.message.sender, AgentAddress)

C18_Complete ==
    DialogueLabel(ret.args.message.dialogue_reference, ret.args.message.sender,
                  AgentAddress)

\* an inbound message with a complete reference arrives after a message with
\* that reference from that sender has promoted the self-initiated dialogue D
C18_Case ==
    /\ Called("Dialogues.update")
    /\ Inbound(ret.args.message)
    /\ C18_Incomplete \in DOMAIN ret.pre.incomplete_to_complete
    /\ ret.pre.incomplete_to_complete[C18_Incomplete] = C18_Complete
    /\ C18_Complete \in DOMAIN ret.pre.dialogues

\* C18: that message is looked up to D (get_dialogue gives D before and after
\* the call, and a dialogue returned is D), the promotion map is as it was,
\* and D keeps its label and its key
C18_Idempotent ==
    C18_Case =>
        LET D == Before(C18_Complete)
        IN  /\ IsDialogue(get_dialogue(ret.pre, ret.args.message))
            /\ get_dialogue(ret.pre, ret.args.message).oid = D.oid
            /\ IsDialogue(get_dialogue(Registry, ret.args.message))
            /\ get_dialogue(Registry, ret.args.message).oid = D.oid
            /\ ret.result = None \/ (IsDialogue(ret.result) /\ ret.result.oid = D.oid)
            /\ incomplete_to_complete = ret.pre.incomplete_to_complete
            /\ D.dialogue_label = C18_Complete
            /\ C18_Complete \in DOMAIN dialogues
            /\ Now(C18_Complete).oid = D.oid
            /\ Now(C18_Complete).dialogue_label = C18_Complete
            /\ DOMAIN dialogues = DOMAIN ret.pre.dialogues

\* the second message is accepted by D, which holds the first
C18_Witness ==
    /\ C18_Case
    /\ IsDialogue(ret.result)
    /\ Len(ret.result.incoming_messages) = 2

(***************************************************************************)
(* C19: label promotion is one-way.                                        *)
(***************************************************************************)
\* a step that is a call of update_dialogue_label(final) replaces the label
\* of the dialogue with final if the label's responder reference is "" and
\* final's is not, and otherwise fails and leaves the label
C19_Replaces ==
    ret'.op = "Dialogue.update_dialogue_label" =>
        LET key == ret'.args.key
            final == ret'.args.final
            current == dialogues[key].dialogue_label
        IN  IF /\ current.dialogue_reference[2] = UNASSIGNED_DIALOGUE_REFERENCE
               /\ final.dialogue_reference[2] # UNASSIGNED_DIALOGUE_REFERENCE
            THEN /\ ret'.result = None
                 /\ dialogues'[key].dialogue_label = final
                 /\ dialogues'[key].oid = dialogues[key].oid
            ELSE /\ ret'.result = Raise("AssertionError")
                 /\ dialogues' = dialogues

\* in a step of any operation, a dialogue object whose label is complete
\* keeps its label
C19_Keeps ==
    \A key \in DOMAIN dialogues :
        IsComplete(dialogues[key].dialogue_label) =>
            \A d \in Object(dialogues', dialogues[key].oid) :
                d.dialogue_label = dialogues[key].dialogue_label

\* C19: update_dialogue_label(final) replaces the label iff the current
\* label's responder reference is "" and final's is not "", otherwise it
\* fails and the label is unchanged; and once the label of a dialogue is
\* complete, no operation changes it
C19_OneWay == [][C19_Replaces /\ C19_Keeps]_vars

\* update_dialogue_label was called with another complete label on a
\* dialogue whose label the registry had completed, and failed
C19_Witness ==
    /\ Called("Dialogue.update_dialogue_label")
    /\ IsComplete(Before(ret.args.key).dialogue_label)
    /\ Before(ret.args.key).is_self_initiated
    /\ IsComplete(ret.args.final)
    /\ ret.args.final # Before(ret.args.key).dialogue_label
    /\ ret.result = Raise("AssertionError")

(***************************************************************************)
(* C20: the opponent is never the agent.                                   *)
(***************************************************************************)
\* C20: every label that is a key of by_label has an opponent address other
\* than the agent's own address
C20_OpponentIsPeer ==
    \A L \in DOMAIN dialogues : L.dialogue_opponent_addr # AgentAddress

(***************************************************************************)
(* C21: who started the dialogue.                                          *)
(***************************************************************************)
\* C21: for every dialogue of the registry the label's starter address is the
\* agent's or the label's opponent address, and is_self_initiated is true
\* exactly when the starter address differs from the opponent address; a
\* dialogue that create returns is self-initiated, one that an inbound first
\* message creates is not
C21_Starter ==
    /\ \A key \in DOMAIN dialogues :
          LET L == Now(key).dialogue_label
          IN  /\ L.dialogue_starter_addr \in {AgentAddress, L.dialogue_opponent_addr}
              /\ Now(key).is_self_initiated
                    <=> (L.dialogue_starter_addr # L.dialogue_opponent_addr)
    /\ (Called("Dialogues.create") /\ ~Raised(ret.result))
          => ret.result.dialogue.is_self_initiated
    /\ (Called("Dialogues.update") /\ IsDialogue(ret.result)
        /\ ret.result.oid \notin Oids(ret.pre.dialogues))
          => ~ret.result.is_self_initiated

C22_WitnessReply ==
    /\ Called("Dialogue.reply")
    /\ is_empty(Before(ret.args.key))
    /\ ret.result = Raise("AssertionError")

(***************************************************************************)
(* C23: the statistics.                                                    *)
(***************************************************************************)
RECURSIVE SumOver(_, _)
SumOver(f, keys) ==
    IF keys = {} THEN 0
    ELSE LET k == CHOOSE x \in keys : TRUE
         IN  f[k] + SumOver(f, keys \ {k})

\* the sum of all counters of both histograms
Total(stats) ==
    SumOver(stats.self_initiated, DOMAIN stats.self_initiated)
    + SumOver(stats.other_initiated, DOMAIN stats.other_initiated)

\* C23: add_dialogue_endstate(e, is_self_initiated) with a declared e adds 1
\* to the counter of e in the self-initiated histogram if is_self_initiated
\* and in the other histogram if not, and leaves every other counter; with
\* an undeclared e it fails and both histograms are as before; the sum of all
\* counters is the number of successful calls
C23_Stats ==
    /\ DOMAIN dialogue_stats.self_initiated = END_STATES
    /\ DOMAIN dialogue_stats.other_initiated = END_STATES
    /\ Total(dialogue_stats) = recorded
    /\ Called("DialogueStats.add_dialogue_endstate") =>
          LET e == ret.args.end_state
              mine == ret.args.is_self_initiated
          IN  IF e \in END_STATES
              THEN /\ ret.result = None
                   /\ \A x \in END_STATES :
                         /\ dialogue_stats.self_initiated[x]
                               = ret.pre.self_initiated[x]
                                 + (IF mine /\ x = e THEN 1 ELSE 0)
                         /\ dialogue_stats.other_initiated[x]
                               = ret.pre.other_initiated[x]
                                 + (IF ~mine /\ x = e THEN 1 ELSE 0)
              ELSE /\ ret.result = Raise("AssertionError")
                   /\ dialogue_stats = ret.pre

\* after a self-initiated and an opponent-initiated record of the same end
\* state, an undeclared end state has been refused
C23_Witness ==
    /\ Called("DialogueStats.add_dialogue_endstate")
    /\ ret.args.end_state \notin END_STATES
    /\ ret.result = Raise("AssertionError")
    /\ \E e \in END_STATES :
          /\ dialogue_stats.self_initiated[e] = 1
          /\ dialogue_stats.other_initiated[e] = 1

(***************************************************************************)
(* C24: the JSON round trip of labels.                                     *)
(***************************************************************************)
\* C24: L.json has exactly the four fields dialogue_starter_reference,
\* dialogue_responder_reference, dialogue_opponent_addr and
\* dialogue_starter_addr, holding the components of L, and
\* from_json(L.json) = L
C24_JsonRoundTrip ==
    /\ Called("DialogueLabel.json") =>
          /\ DOMAIN ret.result = {"dialogue_starter_reference",
                                  "dialogue_responder_reference",
                                  "dialogue_opponent_addr", "dialogue_starter_addr"}
          /\ ret.result["dialogue_starter_reference"] = ret.label.dialogue_reference[1]
          /\ ret.result["dialogue_responder_reference"] = ret.label.dialogue_reference[2]
          /\ ret.result["dialogue_opponent_addr"] = ret.label.dialogue_opponent_addr
          /\ ret.result["dialogue_starter_addr"] = ret.label.dialogue_starter_addr
    /\ Called("DialogueLabel.from_json") => ret.result = ret.label

\* a label with four different components, one with the separator, has gone
\* to JSON and back
C24_Witness ==
    /\ Called("DialogueLabel.from_json")
    /\ ret.result = ret.label
    /\ Cardinality({ret.label.dialogue_reference[1], ret.label.dialogue_reference[2],
                    ret.label.dialogue_opponent_addr,
                    ret.label.dialogue_starter_addr}) = 4
    /\ ret.label.dialogue_opponent_addr = <<"a", "_">>

(***************************************************************************)
(* C25: the string round trip of labels.                                   *)
(***************************************************************************)
HasSeparator(string) == \E i \in 1..Len(string) : string[i] = "_"

C25_Plain(label) ==
    /\ ~HasSeparator(label.dialogue_reference[1])
    /\ ~HasSeparator(label.dialogue_reference[2])
    /\ ~HasSeparator(label.dialogue_opponent_addr)
    /\ ~HasSeparator(label.dialogue_starter_addr)

\* C25: str(L) is the starter reference, the responder reference, the
\* opponent address and the starter address joined by "_"; when no component
\* of L contains "_", from_str(str(L)) = L
C25_StrRoundTrip ==
    /\ Called("DialogueLabel.__str__") =>
          ret.result = ret.label.dialogue_reference[1] \o <<"_">>
                       \o ret.label.dialogue_reference[2] \o <<"_">>
                       \o ret.label.dialogue_opponent_addr \o <<"_">>
                       \o ret.label.dialogue_starter_addr
    /\ (Called("DialogueLabel.from_str") /\ C25_Plain(ret.label)) =>
          ret.result = ret.label

\* an incomplete label whose opponent and starter differ has gone to a string
\* and back
C25_Witness ==
    /\ Called("DialogueLabel.from_str")
    /\ C25_Plain(ret.label)
    /\ ret.label.dialogue_reference[1] # <<>>
    /\ ret.label.dialogue_reference[2] = <<>>
    /\ ret.label.dialogue_opponent_addr # ret.label.dialogue_starter_addr
    /\ ret.label.dialogue_opponent_addr # <<>>
    /\ ret.result = ret.label

(***************************************************************************)
(* C26: the nonces of the registry.                                        *)
(***************************************************************************)
\* the nonces the registry had produced before the call
Produced == {Nonce(k) : k \in 1..ret.pre.nonce_count}

Fresh(nonce) == nonce # UNASSIGNED_DIALOGUE_REFERENCE /\ nonce \notin Produced

\* the call created the dialogue it returned
Created == IsDialogue(ret.result) /\ ret.result.oid \notin Oids(ret.pre.dialogues)

C27_Created(m) ==
    {key \in DOMAIN ret.pre.dialogues :
        LET d == Before(key)
        IN  /\ ~d.is_self_initiated
            /\ d.incomplete_dialogue_label
                 = DialogueLabel(m.dialogue_reference, m.sender, m.sender)
            /\ Len(d.incoming_messages) >= 1
            /\ d.incoming_messages[1].message_id = STARTING_MESSAGE_ID}

C27_Case ==
    /\ Called("Dialogues.update")
    /\ Inbound(ret.args.message)
    /\ ret.args.message.message_id = STARTING_MESSAGE_ID
    /\ ret.args.message.dialogue_reference[1] # UNASSIGNED_DIALOGUE_REFERENCE
    /\ ret.args.message.dialogue_reference[2] = UNASSIGNED_DIALOGUE_REFERENCE
    /\ C27_Created(ret.args.message) # {}

\* C27: after an inbound message with reference (r,""), message_id 1 from
\* sender s has created an opponent-initiated dialogue D, a second such
\* message makes Dialogues.update return None, creates no second dialogue and
\* leaves the logs of D, the dialogues and the promotion map unchanged
C27_Replay ==
    C27_Case =>
        /\ ret.result = None
        /\ dialogues = ret.pre.dialogues
        /\ incomplete_to_complete = ret.pre.incomplete_to_complete

(***************************************************************************)
(* C28: promotion and rejected messages.                                   *)
(***************************************************************************)
\* the incomplete label of the self-initiated dialogue that message m, with a
\* complete reference, continues
C28_Incomplete(m) ==
    DialogueLabel(<<m.dialogue_reference[1], UNASSIGNED_DIALOGUE_REFERENCE>>,
                  m.sender, AgentAddress)

C28_Case ==
    /\ Called("Dialogues.update")
    /\ Inbound(ret.args.message)
    /\ ret.args.message.dialogue_reference[1] # UNASSIGNED_DIALOGUE_REFERENCE
    /\ ret.args.message.dialogue_reference[2] # UNASSIGNED_DIALOGUE_REFERENCE
    /\ C28_Incomplete(ret.args.message) \in DOMAIN ret.pre.dialogues
    /\ C28_Incomplete(ret.args.message) \notin DOMAIN ret.pre.incomplete_to_complete
    /\ Before(C28_Incomplete(ret.args.message)).is_self_initiated
    /\ ret.result = None

\* C28: if Dialogues.update returns None for an inbound message with a
\* complete reference from the opponent of a self-initiated dialogue D not
\* yet promoted, D keeps its incomplete label and its incomplete key and the
\* promotion map is unchanged
C28_PromotionOnAccept ==
    C28_Case =>
        /\ C28_Incomplete(ret.args.message) \in DOMAIN dialogues
        /\ Now(C28_Incomplete(ret.args.message)).dialogue_label
             = C28_Incomplete(ret.args.message)
        /\ incomplete_to_complete = ret.pre.incomplete_to_complete

(***************************************************************************)
(* C29: a rejected first message.                                          *)
(***************************************************************************)
C29_Case ==
    /\ Called("Dialogues.update")
    /\ Inbound(ret.args.message)
    /\ ret.args.message.message_id = STARTING_MESSAGE_ID
    /\ ret.args.message.dialogue_reference[1] # UNASSIGNED_DIALOGUE_REFERENCE
    /\ ret.args.message.dialogue_reference[2] = UNASSIGNED_DIALOGUE_REFERENCE
    /\ ret.result = None

\* C29: if an inbound message with reference (r,"") and message_id 1 is
\* rejected, Dialogues.update returns None and the dialogues and the promotion
\* map are as before the call; hence after a completed create or update every
\* stored dialogue has at least one message
C29_NoEmptyDialogue ==
    /\ C29_Case =>
          /\ dialogues = ret.pre.dialogues
          /\ incomplete_to_complete = ret.pre.incomplete_to_complete
    /\ (Called("Dialogues.create") \/ Called("Dialogues.update")) =>
          \A key \in DOMAIN dialogues : ~is_empty(Now(key))

(***************************************************************************)
(* C30: every accepted message targets its immediate predecessor.          *)
(***************************************************************************)
\* the messages of both logs of d
C30_Logged(d) ==
    {d.outgoing_messages[i] : i \in 1..Len(d.outgoing_messages)}
    \cup {d.incoming_messages[i] : i \in 1..Len(d.incoming_messages)}

\* C30: in every reachable state each message m in either log of a dialogue
\* satisfies m.target = m.message_id - 1
C30_TargetsPredecessor ==
    \A key \in DOMAIN dialogues :
        \A m \in C30_Logged(Now(key)) : m.target = m.message_id - 1

\* a dialogue holds three messages, the last with target 2, where the range
\* test alone would also have admitted target 1
C30_Witness ==
    \E key \in DOMAIN dialogues :
        /\ Cardinality(C30_Logged(Now(key))) = 3
        /\ \E m \in C30_Logged(Now(key)) : m.message_id = 3 /\ m.target = 2
        /\ \A m \in C30_Logged(Now(key)) : m.target = m.message_id - 1

(***************************************************************************)
(* C31: a performative without valid replies closes the dialogue.          *)
(***************************************************************************)
\* the last message of d has a performative with no valid reply
C31_Closed(d) ==
    /\ ~is_empty(d)
    /\ VALID_REPLIES[last_message(d).performative] = {}

\* C31: once a message whose performative has an empty valid-replies set is
\* the last message of a dialogue, no call of Dialogue.update, Dialogue.reply
\* or Dialogues.update (nor of Dialogues.create) changes the logs of that
\* dialogue: after every call they are what they were before it
C31_TerminalCloses ==
    ret # Idle =>
        \A key \in DOMAIN ret.pre.dialogues :
            C31_Closed(Before(key)) =>
                \E d \in Object(dialogues, Before(key).oid) :
                    /\ d.outgoing_messages = Before(key).outgoing_messages
                    /\ d.incoming_messages = Before(key).incoming_messages

\* a reply to the third and last message of a closed dialogue has been refused
C31_Witness ==
    /\ Called("Dialogue.reply")
    /\ ret.args.key \in DOMAIN ret.pre.dialogues
    /\ C31_Closed(Before(ret.args.key))
    /\ last_message(Before(ret.args.key)).message_id = MaxMsgs
    /\ ret.args.target = MaxMsgs
    /\ Raised(ret.result)
    /\ dialogues = ret.pre.dialogues

(***************************************************************************)
(* C32: a third party cannot touch a dialogue.                             *)
(***************************************************************************)
\* C32: an inbound message handed to Dialogues.update leaves every dialogue
\* whose opponent is not its sender as it was: the same logs and label, under
\* the same key
C32_ThirdParty ==
    (Called("Dialogues.update") /\ Inbound(ret.args.message)) =>
        \A key \in DOMAIN ret.pre.dialogues :
            Before(key).dialogue_label.dialogue_opponent_addr # ret.args.message.sender
                => /\ key \in DOMAIN dialogues
                   /\ Now(key) = Before(key)

\* carol has sent what would be a valid first reply in a dialogue the agent
\* opened with bob, with the starter reference of that dialogue
C32_Witness ==
    /\ Called("Dialogues.update")
    /\ ret.args.message.sender = "carol"
    /\ ret.args.message.to = AgentAddress
    /\ ret.args.message.message_id = 2
    /\ ret.args.message.target = 1
    /\ ret.args.message.performative = "performative_pct"
    /\ ret.args.message.dialogue_reference[2] = "r1"
    /\ \E key \in DOMAIN ret.pre.dialogues :
          /\ Before(key).is_self_initiated
          /\ ~IsComplete(key)
          /\ key.dialogue_opponent_addr = "bob"
          /\ key.dialogue_reference[1] = ret.args.message.dialogue_reference[1]
          /\ Len(Before(key).outgoing_messages) = 1
          /\ key \in DOMAIN dialogues
          /\ Now(key) = Before(key)

(***************************************************************************)
(* C33: the keys of the registry.                                          *)
(***************************************************************************)
\* C33: for every entry (L -> D) of the dialogues, the label of D is L and
\* its incomplete label is the incomplete version of L, and no dialogue
\* object is stored under two keys
C33_Keys ==
    /\ \A L \in DOMAIN dialogues :
          /\ Now(L).dialogue_label = L
          /\ Now(L).incomplete_dialogue_label = get_incomplete_version(L)
    /\ \A L1 \in DOMAIN dialogues, L2 \in DOMAIN dialogues :
          Now(L1).oid = Now(L2).oid => L1 = L2

\* a self-initiated dialogue has just been promoted to its complete key, in a
\* registry that holds another dialogue
C33_Witness ==
    /\ Called("Dialogues.update")
    /\ Cardinality(DOMAIN dialogues) = 2
    /\ \E L \in DOMAIN dialogues :
          /\ IsComplete(L)
          /\ Now(L).is_self_initiated
          /\ get_incomplete_version(L) \in DOMAIN ret.pre.dialogues
          /\ Now(L).dialogue_label = L
          /\ Now(L).oid = Before(get_incomplete_version(L)).oid

(***************************************************************************)
(* C34: the promotion map.                                                 *)
(***************************************************************************)
\* C34: for every entry (k -> v) of the promotion map, k has responder
\* reference "", v has a non-empty responder reference, the incomplete
\* version of v is k, v is a key of the dialogues and k is not
C34_PromotionMap ==
    \A k \in DOMAIN incomplete_to_complete :
        LET v == incomplete_to_complete[k]
        IN  /\ k.dialogue_reference[2] = UNASSIGNED_DIALOGUE_REFERENCE
            /\ v.dialogue_reference[2] # UNASSIGNED_DIALOGUE_REFERENCE
            /\ get_incomplete_version(v) = k
            /\ v \in DOMAIN dialogues
            /\ k \notin DOMAIN dialogues

\* the map holds the promotion of a self-initiated dialogue and the entry of
\* an opponent-initiated one
C34_Witness ==
    /\ \E k \in DOMAIN incomplete_to_complete :
          /\ incomplete_to_complete[k] \in DOMAIN dialogues
          /\ Now(incomplete_to_complete[k]).is_self_initiated
    /\ \E k \in DOMAIN incomplete_to_complete :
          /\ incomplete_to_complete[k] \in DOMAIN dialogues
          /\ ~Now(incomplete_to_complete[k]).is_self_initiated

(***************************************************************************)
(* C35: message ids are dense and unique.                                  *)
(***************************************************************************)
\* the messages of both logs of d, outgoing first
C35_All(d) == d.outgoing_messages \o d.incoming_messages

C36_Increasing(log) ==
    \A i \in 1..Len(log), j \in 1..Len(log) :
        i < j => log[i].message_id < log[j].message_id

\* C36: of a non-empty dialogue, last_message is the message with the
\* greatest message_id of both logs and the message accepted last, and in each
\* log the message_ids increase in the order of appending; of an empty
\* dialogue, last_message, last_incoming_message and last_outgoing_message
\* are None and is_empty is true
C36_LastMessage ==
    \A key \in DOMAIN dialogues :
        LET d == Now(key)
        IN  /\ C36_Increasing(d.outgoing_messages)
            /\ C36_Increasing(d.incoming_messages)
            /\ is_empty(d) <=> Messages(d) = {}
            /\ Messages(d) # {} =>
                  /\ last_message(d) \in Messages(d)
                  /\ \A m \in Messages(d) : m.message_id <= last_message(d).message_id
                  /\ last_message(d) = Last(MergedLog(d))
            /\ Messages(d) = {} =>
                  /\ last_message(d) = None
                  /\ last_incoming_message(d) = None
                  /\ last_outgoing_message(d) = None
                  /\ is_empty(d)

\* the message accepted last is outgoing, after an incoming one
C36_Witness ==
    \E key \in DOMAIN dialogues :
        /\ Len(Now(key).incoming_messages) >= 1
        /\ Len(Now(key).outgoing_messages) >= 1
        /\ Last(MergedLog(Now(key))) = last_outgoing_message(Now(key))
        /\ last_message(Now(key)) = last_outgoing_message(Now(key))
        /\ Now(key).incoming_messages[1].message_id = 1

(***************************************************************************)
(* C37: the sender of an outgoing message.                                 *)
(***************************************************************************)
\* the message of the call with the agent as its sender
C37_Defaulted == [ret.args.message EXCEPT !.sender = AgentAddress]

\* the message of the call, sent by the agent, belongs to the dialogue and is
\* valid
C37_Passes ==
    /\ is_belonging_to_dialogue(Before(ret.args.key), C37_Defaulted)
    /\ is_valid_next_message(Before(ret.args.key), C37_Defaulted, ret.hook) = "ok"

\* C37: Dialogue.update judges a message whose sender is unset as a message
\* of the agent, and when it accepts it appends it, with the agent as sender,
\* to the outgoing log and leaves the incoming log; a message that has a
\* sender is appended with that sender
C37_SenderDefault ==
    Called("Dialogue.update") =>
        LET d == Before(ret.args.key)
            d2 == Now(ret.args.key)
        IN  IF ret.args.message.sender = Unset
            THEN /\ Raised(ret.result) <=> ~C37_Passes
                 /\ ~Raised(ret.result) =>
                       /\ d2.outgoing_messages = Append(d.outgoing_messages, C37_Defaulted)
                       /\ d2.incoming_messages = d.incoming_messages
            ELSE ~Raised(ret.result) =>
                    \/ /\ d2.outgoing_messages = Append(d.outgoing_messages, ret.args.message)
                       /\ d2.incoming_messages = d.incoming_messages
                    \/ /\ d2.incoming_messages = Append(d.incoming_messages, ret.args.message)
                       /\ d2.outgoing_messages = d.outgoing_messages

\* a message without sender has been accepted into a dialogue that holds an
\* incoming message
C37_Witness ==
    /\ Called("Dialogue.update")
    /\ ret.args.message.sender = Unset
    /\ ~Raised(ret.result)
    /\ Len(Before(ret.args.key).incoming_messages) >= 1
    /\ Last(Now(ret.args.key).outgoing_messages) = C37_Defaulted

(***************************************************************************)
(* C38: the direction of the logs.                                         *)
(***************************************************************************)
\* C38: every message of the outgoing log of a dialogue has the agent as
\* sender and the opponent of the label as recipient, every message of its
\* incoming log has the opponent of the label as sender, and no message is in
\* both logs
C38_LogDirection ==
    \A key \in DOMAIN dialogues :
        LET d == Now(key)
            opponent == d.dialogue_label.dialogue_opponent_addr
        IN  /\ \A i \in 1..Len(d.outgoing_messages) :
                  /\ d.outgoing_messages[i].sender = AgentAddress
                  /\ d.outgoing_messages[i].to = opponent
            /\ \A i \in 1..Len(d.incoming_messages) :
                  d.incoming_messages[i].sender = opponent
            /\ \A i \in 1..Len(d.outgoing_messages), j \in 1..Len(d.incoming_messages) :
                  d.outgoing_messages[i] # d.incoming_messages[j]

\* a dialogue with a peer holds messages in both logs
C38_Witness ==
    \E key \in DOMAIN dialogues :
        /\ key.dialogue_opponent_addr \in Peers
        /\ Len(Now(key).outgoing_messages) >= 1
        /\ Len(Now(key).incoming_messages) >= 1
        /\ Last(Now(key).outgoing_messages).to = key.dialogue_opponent_addr
        /\ Last(Now(key).incoming_messages).sender = key.dialogue_opponent_addr

(***************************************************************************)
(* C39: dialogue isolation.                                                *)
(***************************************************************************)
\* the identity of the dialogue the call returned, if it returned one
C39_Returned ==
    IF Called("Dialogues.create")
    THEN IF Raised(ret.result) THEN {} ELSE {ret.result.dialogue.oid}
    ELSE IF IsDialogue(ret.result) THEN {ret.result.oid} ELSE {}

\* the dialogue object d is in the registry with the logs, label, role and
\* flag it has in d
C39_Kept(d) ==
    \E d2 \in Object(dialogues, d.oid) :
        /\ d2.outgoing_messages = d.outgoing_messages
        /\ d2.incoming_messages = d.incoming_messages
        /\ d2.dialogue_label = d.dialogue_label
        /\ d2.role = d.role
        /\ d2.is_self_initiated = d.is_self_initiated

\* C39: a call of Dialogues.update or Dialogues.create changes the logs or
\* the label of no dialogue but the one it returns or creates: every other
\* dialogue of the registry keeps its logs, label, role and flag
C39_Isolation ==
    (Called("Dialogues.update") \/ Called("Dialogues.create")) =>
        \A key \in DOMAIN ret.pre.dialogues :
            Before(key).oid \notin C39_Returned => C39_Kept(Before(key))

\* a call changes at most one dialogue
C39_AtMostOne ==
    (Called("Dialogues.update") \/ Called("Dialogues.create")) =>
        \A k1 \in DOMAIN ret.pre.dialogues, k2 \in DOMAIN ret.pre.dialogues :
            (~C39_Kept(Before(k1)) /\ ~C39_Kept(Before(k2))) => k1 = k2

(***************************************************************************)
(* C40: the string representation of a dialogue.                           *)
(***************************************************************************)
\* C40: the representation of every dialogue lists the performatives of its
\* messages in the order of their message_ids: it has one line for each
\* message after the line of the label, and line i + 1 is the performative of
\* the message with message_id i
C40_Chronological ==
    \A key \in DOMAIN dialogues :
        LET d == Now(key)
            n == Len(d.outgoing_messages) + Len(d.incoming_messages)
        IN  /\ Len(Dialogue_str(d)) = n + 1
            /\ \A i \in 1..n :
                  Dialogue_str(d)[i + 1] = get_message(d, i).performative

====
